---- MODULE Spec2Model ----
(***************************************************************************)
(* hobbes: a package manager that installs release assets from GitHub,    *)
(* records them in a manifest and updates / removes them.                  *)
(*                                                                         *)
(* Strings of the program are TLA+ strings read as character sequences,    *)
(* so that lower(), startswith(), split() and substring search are        *)
(* computed as the code computes them.                                     *)
(***************************************************************************)
EXTENDS Integers, Sequences, FiniteSets, TLC

\* ------------------------------------------------------------------------
\* Bounds of the model
\* ------------------------------------------------------------------------
\* highest value of the wall clock: datetime.now() is read once per Package
MaxClock == 2
\* highest number of staging directories that may exist at once
MaxStaging == 1
\* largest number of files left in the cache directory
MaxLeftover == 1

\* ------------------------------------------------------------------------
\* String helpers (Python str methods); a string is a sequence of characters
\* ------------------------------------------------------------------------
\* s[i], 1-based
Char(s, i) == SubSeq(s, i, i)

LowerChar(c) ==
    LET upper == "ABCDEFGHIJKLMNOPQRSTUVWXYZ"
        lower == "abcdefghijklmnopqrstuvwxyz"
    IN  IF \E i \in 1..Len(upper) : Char(upper, i) = c
        THEN Char(lower, CHOOSE i \in 1..Len(upper) : Char(upper, i) = c)
        ELSE c

RECURSIVE Lower(_)
\* str.lower(), by halves
Lower(s) ==
    IF s = "" THEN ""
    ELSE IF Len(s) = 1 THEN LowerChar(s)
    ELSE Lower(SubSeq(s, 1, Len(s) \div 2))
             \o Lower(SubSeq(s, Len(s) \div 2 + 1, Len(s)))

\* index of the first occurrence of the character c in s, 0 when there is none
IndexOf(s, c) ==
    LET hits == {i \in 1..Len(s) : Char(s, i) = c}
    IN  IF hits = {} THEN 0 ELSE CHOOSE i \in hits : \A j \in hits : i <= j

RECURSIVE Split(_, _)
\* str.split(sep) for a one-character separator
Split(s, sep) ==
    IF IndexOf(s, sep) = 0 THEN <<s>>
    ELSE <<SubSeq(s, 1, IndexOf(s, sep) - 1)>>
             \o Split(SubSeq(s, IndexOf(s, sep) + 1, Len(s)), sep)

\* str.startswith
StartsWith(s, pre) ==
    /\ Len(pre) <= Len(s)
    /\ SubSeq(s, 1, Len(pre)) = pre

\* str.endswith
EndsWith(s, suf) ==
    /\ Len(suf) <= Len(s)
    /\ SubSeq(s, Len(s) - Len(suf) + 1, Len(s)) = suf

\* Python `pat in s`; re.search of a literal pattern
Contains(s, pat) ==
    \E i \in 1..(Len(s) - Len(pat) + 1) : SubSeq(s, i, i + Len(pat) - 1) = pat

\* the text after the first n characters
Drop(s, n) == SubSeq(s, n + 1, Len(s))

Range(s) == {s[i] : i \in DOMAIN s}

\* ------------------------------------------------------------------------
\* models/package.py
\* ------------------------------------------------------------------------
Digits == "0123456789"

\* str(n) for one digit
DigitStr(n) == Char(Digits, n + 1)

\* int(c) for one digit
DigitVal(c) == (CHOOSE i \in 1..Len(Digits) : Char(Digits, i) = c) - 1

\* an isoformat that writes whole seconds only
isoformatSeconds(dt) == "T" \o DigitStr(dt.sec)

\* datetime.isoformat(): the fraction is written only when microsecond # 0
isoformat(dt) ==
    IF dt.usec = 0 THEN "T" \o DigitStr(dt.sec)
    ELSE "T" \o DigitStr(dt.sec) \o "." \o DigitStr(dt.usec)

\* datetime.fromisoformat(): a string without fraction gives microsecond 0
fromisoformat(s) ==
    IF Len(s) = 2 THEN [sec |-> DigitVal(Char(s, 2)), usec |-> 0]
    ELSE [sec |-> DigitVal(Char(s, 2)), usec |-> DigitVal(Char(s, 4))]

\* dict.get(key, default)
DictGet(d, key, default) == IF key \in DOMAIN d THEN d[key] ELSE default

\* Package.__init__ (dataclass)
Package(name, repo, version, tag, installed_at, binaries, pinned, asset) ==
    [name |-> name, repo |-> repo, version |-> version, tag |-> tag,
     installed_at |-> installed_at, binaries |-> binaries,
     pinned |-> pinned, asset |-> asset]

\* Package.to_dict
to_dict(pkg) ==
    [repo |-> pkg.repo, version |-> pkg.version, tag |-> pkg.tag,
     installed_at |-> isoformat(pkg.installed_at),
     binaries |-> pkg.binaries, pinned |-> pkg.pinned, asset |-> pkg.asset]

\* Package.from_dict: `now` is what datetime.now() returns
from_dict(name, data, now) ==
    Package(name, data["repo"], data["version"], data["tag"],
            IF "installed_at" \in DOMAIN data
                THEN fromisoformat(data["installed_at"]) ELSE now,
            DictGet(data, "binaries", <<>>),
            DictGet(data, "pinned", FALSE),
            DictGet(data, "asset", ""))

\* ------------------------------------------------------------------------
\* core/manifest.py: pure parts
\* ------------------------------------------------------------------------
MANIFEST_VERSION == 1

\* the manifest path when no file exists there
NoFile == [exists |-> FALSE]

\* Manifest._load: the mapping read from the file (empty when it is absent)
ManifestLoad(f, now) ==
    IF ~f.exists THEN <<>>
    ELSE [n \in DOMAIN DictGet(f, "packages", <<>>) |->
              from_dict(n, f["packages"][n], now)]

\* Manifest.save: the document written to the file
ManifestSave(packages) ==
    [exists |-> TRUE,
     version |-> MANIFEST_VERSION,
     packages |-> [n \in DOMAIN packages |-> to_dict(packages[n])]]

\* dict with key k set to v
DictSet(d, k, v) == [x \in (DOMAIN d) \cup {k} |-> IF x = k THEN v ELSE d[x]]

\* dict without key k
DictPop(d, k) == [x \in (DOMAIN d) \ {k} |-> d[x]]

\* ------------------------------------------------------------------------
\* core/github.py, models/release.py: pure parts
\* ------------------------------------------------------------------------
\* the text that may follow the repository name in a URL: (?:\.git)?/?$
\* the tails without the optional group (?:\.git)?
UrlTailsBare == {"", "/"}

UrlTails == {"", "/", ".git", ".git/"}

\* re.match of ([^/]+)/([^/]+?)(?:\.git)?/?$ on the text after "github.com/"
UrlPath(rest) ==
    LET parts == Split(rest, "/")
        owner == parts[1]
        after == Drop(rest, Len(owner) + 1)
        \* lengths of the lazy group ([^/]+?) that let the tail match
        cands == {k \in 1..Len(after) :
                     /\ ~Contains(SubSeq(after, 1, k), "/")
                     /\ Drop(after, k) \in UrlTails}
        k0    == CHOOSE k \in cands : \A j \in cands : k <= j
    IN  IF Len(parts) >= 2 /\ owner # "" /\ cands # {}
        THEN [ok |-> TRUE, owner |-> owner, repo |-> SubSeq(after, 1, k0)]
        ELSE [ok |-> FALSE, owner |-> "", repo |-> ""]

\* parse_repo_spec: ok = FALSE stands for the ValueError
parse_repo_spec(spec) ==
    LET noScheme == IF StartsWith(spec, "https://") THEN Drop(spec, 8)
                    ELSE IF StartsWith(spec, "http://") THEN Drop(spec, 7)
                    ELSE spec
        url == IF StartsWith(noScheme, "github.com/")
               THEN UrlPath(Drop(noScheme, 11))
               ELSE [ok |-> FALSE, owner |-> "", repo |-> ""]
        parts == Split(spec, "/")
    IN  IF url.ok THEN url
        ELSE IF Contains(spec, "/") /\ Len(parts) = 2
        THEN [ok |-> TRUE, owner |-> parts[1], repo |-> parts[2]]
        ELSE [ok |-> FALSE, owner |-> "", repo |-> ""]

\* GitHubClient.get_releases that keeps the drafts
get_releasesWithDrafts(response) ==
    IF ~response.answered
    THEN [raised |-> "TransportError", message |-> "", value |-> <<>>]
    ELSE IF response.status = 404
    THEN [raised |-> "GitHubError", message |-> "not found", value |-> <<>>]
    ELSE IF response.status = 403
    THEN [raised |-> "GitHubError", message |-> "rate limit", value |-> <<>>]
    ELSE IF response.status \notin 200..299
    THEN [raised |-> "HTTPStatusError", message |-> "", value |-> <<>>]
    ELSE [raised |-> "", message |-> "",
          value |-> [i \in DOMAIN response.json |->
                        [tag_name |-> response.json[i].tag_name,
                         prerelease |-> DictGet(response.json[i], "prerelease", FALSE),
                         draft |-> DictGet(response.json[i], "draft", FALSE)]]]

\* GitHubClient.get_releases.  A response is [answered, status, json]:
\* answered = FALSE when self.client.get raised a transport error of httpx;
\* raised names the class of the exception that leaves the method ("" when
\* it returns value); Release.from_api_response reads prerelease and draft
\* with the default False
get_releases(response) ==
    IF ~response.answered
    THEN [raised |-> "TransportError", message |-> "", value |-> <<>>]
    ELSE IF response.status = 404
    THEN [raised |-> "GitHubError", message |-> "not found", value |-> <<>>]
    ELSE IF response.status = 403
    THEN [raised |-> "GitHubError", message |-> "rate limit", value |-> <<>>]
    ELSE IF response.status \notin 200..299
    THEN [raised |-> "HTTPStatusError", message |-> "", value |-> <<>>]
    ELSE [raised |-> "", message |-> "",
          value |-> SelectSeq(
              [i \in DOMAIN response.json |->
                  [tag_name |-> response.json[i].tag_name,
                   prerelease |-> DictGet(response.json[i], "prerelease", FALSE),
                   draft |-> DictGet(response.json[i], "draft", FALSE)]],
              LAMBDA release : ~release.draft)]

\* the other methods of GitHubClient: get_latest_release (listing is the
\* response to the request of get_releases it may make),
\* get_release_by_tag and search_repos
GitHubClient(method, response, listing) ==
    LET Raise(class, message) ==
            [raised |-> class, message |-> message, value |-> <<>>]
        Return(value) == [raised |-> "", message |-> "", value |-> value]
        \* response.raise_for_status()
        bad == response.status \notin 200..299
        from_api_response(data) ==
            [tag_name |-> data.tag_name,
             prerelease |-> DictGet(data, "prerelease", FALSE),
             draft |-> DictGet(data, "draft", FALSE)]
        releases == get_releases(listing)
        stable == {i \in DOMAIN releases.value : ~releases.value[i].prerelease}
    IN  IF ~response.answered THEN Raise("TransportError", "")
        ELSE CASE method = "get_latest_release" ->
                    IF response.status = 404
                    THEN IF releases.raised # "" THEN releases
                         ELSE IF stable # {}
                         THEN Return(releases.value[
                                  CHOOSE i \in stable : \A j \in stable : i <= j])
                         ELSE IF releases.value # <<>>
                         THEN Return(releases.value[1])
                         ELSE Raise("GitHubError", "no releases")
                    ELSE IF bad THEN Raise("HTTPStatusError", "")
                    ELSE Return(from_api_response(response.json[1]))
               [] method = "get_release_by_tag" ->
                    IF response.status = 404
                    THEN Raise("GitHubError", "not found")
                    ELSE IF bad THEN Raise("HTTPStatusError", "")
                    ELSE Return(from_api_response(response.json[1]))
               [] method = "search_repos" ->
                    IF bad THEN Raise("HTTPStatusError", "")
                    ELSE Return([i \in DOMAIN response.json |->
                                    [full_name |-> response.json[i].tag_name]])

\* Release.version that returns the tag as it is
ReleaseVersionWhole(tag_name) == tag_name

\* Release.version
ReleaseVersion(tag_name) ==
    IF StartsWith(tag_name, "v") THEN Drop(tag_name, 1) ELSE tag_name

\* ------------------------------------------------------------------------
\* core/platform.py
\* ------------------------------------------------------------------------
\* dict.get(os, []) of OS_PATTERNS
OS_PATTERNS(os) ==
    CASE os = "darwin"  -> <<"darwin", "macos", "mac", "osx", "apple">>
      [] os = "linux"   -> <<"linux">>
      [] os = "windows" -> <<"windows", "win", "win64", "win32">>
      [] OTHER          -> <<>>

\* dict.get(arch, []) of ARCH_PATTERNS
ARCH_PATTERNS(arch) ==
    CASE arch = "amd64" -> <<"amd64", "x86_64", "x64", "64bit">>
      [] arch = "arm64" -> <<"arm64", "aarch64">>
      [] arch = "386"   -> <<"386", "i386", "i686", "x86", "32bit">>
      [] OTHER          -> <<>>

\* skip_extensions without the checksum suffix
skip_extensionsShort == <<".txt", ".md", ".sig", ".asc", ".sbom">>

skip_extensions == <<".txt", ".md", ".sha256", ".sig", ".asc", ".sbom">>

\* the score for "no match"
NoMatch == -1

\* the archive-format bonus with .zip on a par with .tar.gz
FormatBonusEven(name) ==
    IF EndsWith(name, ".tar.gz") \/ EndsWith(name, ".tgz")
          \/ EndsWith(name, ".zip") THEN 10
    ELSE IF EndsWith(name, ".tar.xz") THEN 6
    ELSE 0

\* the archive-format bonus at the end of score_asset
FormatBonus(name) ==
    IF EndsWith(name, ".tar.gz") \/ EndsWith(name, ".tgz") THEN 10
    ELSE IF EndsWith(name, ".zip") THEN 8
    ELSE IF EndsWith(name, ".tar.xz") THEN 6
    ELSE 0

\* score_asset(asset, platform_info)
score_asset(asset, platform_info) ==
    LET name == Lower(asset.name)
        os_matched   == \E i \in DOMAIN OS_PATTERNS(platform_info.os) :
                            Contains(name, OS_PATTERNS(platform_info.os)[i])
        arch_matched == \E i \in DOMAIN ARCH_PATTERNS(platform_info.arch) :
                            Contains(name, ARCH_PATTERNS(platform_info.arch)[i])
        universal    == \E w \in {"universal", "any", "all"} : Contains(name, w)
    IN  IF \E i \in DOMAIN skip_extensions : EndsWith(name, skip_extensions[i])
        THEN NoMatch
        ELSE IF ~os_matched /\ ~universal THEN NoMatch
        ELSE (IF os_matched THEN 100 ELSE 10)
             + (IF arch_matched THEN 50 ELSE 0)
             + (IF os_matched /\ arch_matched THEN 25 ELSE 0)
             + FormatBonus(name)

\* find_best_assets that returns every matching asset
find_best_assetsAll(assets, platform_info) ==
    SelectSeq(assets, LAMBDA a : score_asset(a, platform_info) >= 0)

\* find_best_assets: `scored` holds the (score, asset) pairs with score >= 0,
\* scored.sort(key=score, reverse=True) is stable, so the pair of rank k is
\* the one with k - 1 pairs before it: those of a higher score and those of
\* the same score that came earlier
find_best_assets(assets, platform_info) ==
    LET pairs  == [i \in DOMAIN assets |->
                      [score |-> score_asset(assets[i], platform_info),
                       asset |-> assets[i]]]
        scored == SelectSeq(pairs, LAMBDA x : x.score >= 0)
        rank(i) == 1 + Cardinality({j \in DOMAIN scored :
                          \/ scored[j].score > scored[i].score
                          \/ scored[j].score = scored[i].score /\ j < i})
        sorted == [k \in DOMAIN scored |->
                      scored[CHOOSE i \in DOMAIN scored : rank(i) = k]]
        top    == SelectSeq(sorted, LAMBDA x : x.score = sorted[1].score)
    IN  IF scored = <<>> THEN <<>>
        ELSE [k \in DOMAIN top |-> top[k].asset]

NoAsset == [name |-> ""]

\* find_best_asset: NoAsset stands for None
find_best_asset(assets, platform_info) ==
    LET best == find_best_assets(assets, platform_info)
    IN  IF best # <<>> THEN best[1] ELSE NoAsset

\* ------------------------------------------------------------------------
\* core/checksum.py
\* ------------------------------------------------------------------------
\* number of hex digits of a SHA-256 digest, {64} in the two patterns
HashLen == 64

\* [a-fA-F0-9] of the two patterns
IsHex(s) == \A i \in 1..Len(s) : Contains("0123456789abcdefABCDEF", Char(s, i))

\* \s of the patterns and the characters str.strip() removes
IsSpace(c) == c \in {" ", "\t", "\r", "\n"}

\* str.lstrip()
LStrip(s) ==
    LET keep == {i \in 1..Len(s) : ~IsSpace(Char(s, i))}
    IN  IF keep = {} THEN ""
        ELSE SubSeq(s, CHOOSE i \in keep : \A j \in keep : i <= j, Len(s))

\* str.rstrip()
RStrip(s) ==
    LET keep == {i \in 1..Len(s) : ~IsSpace(Char(s, i))}
    IN  IF keep = {} THEN ""
        ELSE SubSeq(s, 1, CHOOSE i \in keep : \A j \in keep : i >= j)

\* str.strip()
Strip(s) == LStrip(RStrip(s))

NoLineMatch == [ok |-> FALSE, hash |-> "", filename |-> ""]

\* re.match(r"([a-fA-F0-9]{64})\s+\*?(.+)", line) on a stripped line
SumLine(line) ==
    IF /\ Len(line) > HashLen
       /\ IsHex(SubSeq(line, 1, HashLen))
       /\ IsSpace(Char(line, HashLen + 1))
    THEN LET rest == LStrip(Drop(line, HashLen))
         IN  [ok |-> TRUE, hash |-> SubSeq(line, 1, HashLen),
              filename |-> IF Len(rest) >= 2 /\ Head(rest) = "*"
                           THEN Tail(rest) ELSE rest]
    ELSE NoLineMatch

\* re.match(r"(.+?):\s*([a-fA-F0-9]{64})", line) on a stripped line
ColonLine(line) ==
    LET hashAfter(k) == LStrip(Drop(line, k + 1))
        cands == {k \in 1..(Len(line) - 1) :
                     /\ Char(line, k + 1) = ":"
                     /\ Len(hashAfter(k)) >= HashLen
                     /\ IsHex(SubSeq(hashAfter(k), 1, HashLen))}
        k0 == CHOOSE k \in cands : \A j \in cands : k <= j
    IN  IF cands # {}
        THEN [ok |-> TRUE, hash |-> SubSeq(hashAfter(k0), 1, HashLen),
              filename |-> SubSeq(line, 1, k0)]
        ELSE NoLineMatch

\* LineHash that compares the file names and returns the hash as written
LineHashCased(rawLine, target_filename) ==
    LET line == Strip(rawLine)
        a == SumLine(line)
        b == ColonLine(line)
    IN  IF line = "" THEN ""
        ELSE IF a.ok /\ a.filename = target_filename THEN a.hash
        ELSE IF b.ok /\ b.filename = target_filename THEN b.hash
        ELSE ""

\* the hash one line gives for the target ("" when it gives none)
LineHash(rawLine, target_filename) ==
    LET line == Strip(rawLine)
        a == SumLine(line)
        b == ColonLine(line)
    IN  IF line = "" THEN ""
        ELSE IF a.ok /\ Lower(a.filename) = Lower(target_filename)
        THEN Lower(a.hash)
        ELSE IF b.ok /\ Lower(b.filename) = Lower(target_filename)
        THEN Lower(b.hash)
        ELSE ""

\* parse_checksum_file: "" stands for None
parse_checksum_file(content, target_filename) ==
    LET lines == Split(Strip(content), "\n")
        hits  == {i \in DOMAIN lines : LineHash(lines[i], target_filename) # ""}
    IN  IF hits = {} THEN ""
        ELSE LineHash(lines[CHOOSE i \in hits : \A j \in hits : i <= j],
                      target_filename)

\* the checksum_patterns list of find_checksum_asset
checksum_patterns(target_asset) ==
    <<"sha256sums", "sha256", "checksums", "checksums.txt",
      target_asset.name \o ".sha256", target_asset.name \o ".sha256sum">>

\* find_checksum_asset that keeps looking and returns the last match
find_checksum_assetLast(assets, target_asset) ==
    LET pats == checksum_patterns(target_asset)
        hits == {i \in DOMAIN assets :
                    \E k \in DOMAIN pats : Contains(Lower(assets[i].name), pats[k])}
    IN  IF hits = {} THEN NoAsset
        ELSE assets[CHOOSE i \in hits : \A j \in hits : i >= j]

\* find_checksum_asset: NoAsset stands for None
find_checksum_asset(assets, target_asset) ==
    LET pats == checksum_patterns(target_asset)
        hits == {i \in DOMAIN assets :
                    \E k \in DOMAIN pats : Contains(Lower(assets[i].name), pats[k])}
    IN  IF hits = {} THEN NoAsset
        ELSE assets[CHOOSE i \in hits : \A j \in hits : i <= j]

\* what download_text returned: ok = FALSE stands for None
NoText == [ok |-> FALSE, text |-> ""]

\* verify_checksum that raises also when the file has no line for the target
verify_checksumStrict(actual_hash, assets, target_asset, fetched) ==
    /\ find_checksum_asset(assets, target_asset) # NoAsset
    /\ fetched.ok
    => actual_hash = parse_checksum_file(fetched.text, target_asset.name)

\* verify_checksum: TRUE for `return True`, FALSE for the ChecksumError;
\* actual_hash is calculate_sha256(file_path), fetched what download_text
\* returns for the checksum asset
verify_checksum(actual_hash, assets, target_asset, fetched) ==
    LET checksum_asset == find_checksum_asset(assets, target_asset)
        expected_hash  == parse_checksum_file(fetched.text, target_asset.name)
    IN  IF checksum_asset = NoAsset THEN TRUE
        ELSE IF ~fetched.ok THEN TRUE
        ELSE IF expected_hash = "" THEN TRUE
        ELSE actual_hash = expected_hash

\* ------------------------------------------------------------------------
\* core/extractor.py: pure parts.  A file of a directory tree is a record
\* [parts: its path below the root, magic: what its first bytes are,
\*  xbit: whether an execute bit is set]; a tree is the sequence of its files
\* in the order rglob("*") yields them.
\* ------------------------------------------------------------------------
\* Path.name
PathName(f) == f.parts[Len(f.parts)]

\* position of the last "." of a name, 0 when there is none
LastDot(name) ==
    LET dots == {i \in 1..Len(name) : Char(name, i) = "."}
    IN  IF dots = {} THEN 0 ELSE CHOOSE i \in dots : \A j \in dots : i >= j

\* Path.suffix: the last extension, "" for ".profile" and for "name."
PathSuffix(f) ==
    LET name == PathName(f)
        i    == LastDot(name)
    IN  IF 1 < i /\ i < Len(name) THEN SubSeq(name, i, Len(name)) ELSE ""

\* Path.stem
PathStem(f) ==
    LET name == PathName(f)
    IN  SubSeq(name, 1, Len(name) - Len(PathSuffix(f)))

\* is_executable: execute bit, or ELF / Mach-O / PE / shebang header
is_executable(f) == f.xbit \/ f.magic \in {"ELF", "MACHO", "MZ", "#!"}

\* find_executables
find_executables(tree) == SelectSeq(tree, is_executable)

\* is_script
is_script(f) == f.magic = "#!"

exclude_patterns ==
    {"test", "tests", "spec", "specs", "example", "examples",
     "doc", "docs", "build", "dist", ".git", "node_modules",
     "vendor", "__pycache__", ".github"}

exclude_extensions == {".md", ".txt", ".rst", ".json", ".yaml", ".yml", ".toml"}

\* code points of the characters of file names, in increasing order
Ascii == "!#*-./0123456789:ABCDEFGHIJKLMNOPQRSTUVWXYZ_abcdefghijklmnopqrstuvwxyz"

\* Python a < b on str
StrLess(a, b) ==
    LET n == IF Len(a) < Len(b) THEN Len(a) ELSE Len(b)
        diff == {i \in 1..n : Char(a, i) # Char(b, i)}
        d == CHOOSE i \in diff : \A j \in diff : i <= j
    IN  IF diff = {} THEN Len(a) < Len(b)
        ELSE IndexOf(Ascii, Char(a, d)) < IndexOf(Ascii, Char(b, d))

\* sort_key of find_scripts
sort_key(f, repo_name) ==
    [name_match |-> IF repo_name # "" /\ Lower(PathStem(f)) = Lower(repo_name)
                    THEN 0 ELSE 1,
     depth |-> Len(f.parts),
     name  |-> Lower(PathName(f))]

\* Python tuple comparison k1 < k2 of two sort keys
KeyLess(k1, k2) ==
    \/ k1.name_match < k2.name_match
    \/ /\ k1.name_match = k2.name_match
       /\ \/ k1.depth < k2.depth
          \/ k1.depth = k2.depth /\ StrLess(k1.name, k2.name)

\* x put into the sorted sequence s behind every element not greater than it
InsertSorted(s, x, repo_name) ==
    LET after == {i \in DOMAIN s :
                     KeyLess(sort_key(x, repo_name), sort_key(s[i], repo_name))}
        pos == IF after = {} THEN Len(s) + 1
               ELSE CHOOSE i \in after : \A j \in after : i <= j
    IN  SubSeq(s, 1, pos - 1) \o <<x>> \o SubSeq(s, pos, Len(s))

RECURSIVE SortScripts(_, _)
\* list.sort(key=sort_key): stable
SortScripts(s, repo_name) ==
    IF s = <<>> THEN <<>>
    ELSE InsertSorted(SortScripts(SubSeq(s, 1, Len(s) - 1), repo_name),
                      s[Len(s)], repo_name)

\* find_scripts(directory, repo_name): rootParts are the parts of `directory`
find_scripts(tree, rootParts, repo_name) ==
    SortScripts(
        SelectSeq(tree, LAMBDA f :
            /\ \A i \in DOMAIN (rootParts \o f.parts) :
                   Lower((rootParts \o f.parts)[i]) \notin exclude_patterns
            /\ Lower(PathSuffix(f)) \notin exclude_extensions
            /\ is_script(f)),
        repo_name)

\* make_executable that sets the owner's execute bit only
make_executableOwner(mode) == mode \cup {"S_IXUSR"}

\* make_executable adds the mode bits S_IXUSR | S_IXGRP | S_IXOTH
make_executable(mode) == mode \cup {"S_IXUSR", "S_IXGRP", "S_IXOTH"}

RECURSIVE CopyAll(_, _)
\* the loop of install_binaries: each file copied over bin_dir / name
CopyAll(bin, files) ==
    IF files = <<>> THEN bin
    ELSE CopyAll(DictSet(bin, PathName(Head(files)),
                         make_executable(IF Head(files).xbit THEN {"S_IXUSR"}
                                         ELSE {})),
                 Tail(files))

\* the names install_binaries returns
NamesOf(files) == [i \in DOMAIN files |-> PathName(files[i])]

\* uninstall_binaries that returns after the first name
uninstall_binariesFirst(bin, binaries) ==
    [n \in (DOMAIN bin) \ Range(SubSeq(binaries, 1, 1)) |-> bin[n]]

\* uninstall_binaries: every named file that exists is unlinked
uninstall_binaries(bin, binaries) ==
    [n \in (DOMAIN bin) \ Range(binaries) |-> bin[n]]

\* the decoder extract_archive chooses from the lowercased file name
Decoder(archive_name) ==
    LET name == Lower(archive_name)
    IN  IF EndsWith(name, ".tar.gz") \/ EndsWith(name, ".tgz") THEN "tar.gz"
        ELSE IF EndsWith(name, ".tar.xz") THEN "tar.xz"
        ELSE IF EndsWith(name, ".tar") THEN "tar"
        ELSE IF EndsWith(name, ".zip") THEN "zip"
        ELSE IF EndsWith(name, ".gz") THEN "gz"
        ELSE "raw"

\* extract_archive whose tar branches pass no filter to extractall: member
\* names are joined to the destination as they are
ExtractOutcomeTrusting(archive_name, blob) ==
    LET kind == Decoder(archive_name)
        Single(name) ==
            IF name \in {".", ".."} THEN [result |-> "error", tree |-> <<>>]
            ELSE [result |-> "ok",
                  tree |-> <<[parts |-> <<name>>, magic |-> blob.magic,
                              xbit |-> FALSE]>>]
        Kept(parts) ==
            SelectSeq(parts, LAMBDA x : x \notin {"", "/", ".", ".."})
        RECURSIVE Unzip(_, _)
        Unzip(members, written) ==
            IF members = <<>> THEN [result |-> "ok", tree |-> written]
            ELSE IF Kept(Head(members).parts) = <<>>
            THEN [result |-> "error", tree |-> written]
            ELSE Unzip(Tail(members),
                       Append(written, [Head(members) EXCEPT
                                           !.parts = Kept(@)]))
    IN  IF kind = "raw" THEN Single(archive_name)
        ELSE IF blob.decodes # "ok"
        THEN [result |-> blob.decodes, tree |-> <<>>]
        ELSE IF kind = "gz"
        THEN Single(PathStem([parts |-> <<archive_name>>]))
        ELSE IF kind = "zip" THEN Unzip(blob.tree, <<>>)
        ELSE [result |-> "ok", tree |-> blob.tree]

\* how the body of extract_archive ends for a downloaded file: "ok" with the
\* tree it wrote, "error" for ExtractionError (with what it wrote before),
\* "crash" for an exception that the except clause does not name
\* (zlib.error, EOFError, lzma.LZMAError).  A member's parts are the
\* segments of its name, "/" first when the name is absolute; the parts of
\* a written file are relative to the destination.
\*   tar, filter="data": leading "/" stripped, then OutsideDestinationError
\*     (a TarError) when the real path of destination/name is not under the
\*     destination; a name that is the destination itself cannot be opened
\*     for writing (OSError);
\*   zip: extractall drops the segments "", "." and ".." of a name;
\*   .gz and raw: one file named by the stem or the name of the archive
\*     path, an OSError when that names a directory ("." or "..").
ExtractOutcome(archive_name, blob) ==
    LET kind == Decoder(archive_name)
        Single(name) ==
            IF name \in {".", ".."} THEN [result |-> "error", tree |-> <<>>]
            ELSE [result |-> "ok",
                  tree |-> <<[parts |-> <<name>>, magic |-> blob.magic,
                              xbit |-> FALSE]>>]
        RECURSIVE LStripSep(_)
        LStripSep(parts) ==
            IF parts # <<>> /\ Head(parts) \in {"/", ""}
            THEN LStripSep(Tail(parts)) ELSE parts
        \* os.path.realpath of destination/parts, relative to the
        \* destination: a leading ".." says it lies outside
        RECURSIVE RealPath(_, _)
        RealPath(parts, stack) ==
            IF parts = <<>> THEN stack
            ELSE IF Head(parts) \in {"", "."} THEN RealPath(Tail(parts), stack)
            ELSE IF Head(parts) = ".."
            THEN IF stack = <<>> \/ stack[Len(stack)] = ".."
                 THEN RealPath(Tail(parts), Append(stack, ".."))
                 ELSE RealPath(Tail(parts), SubSeq(stack, 1, Len(stack) - 1))
            ELSE RealPath(Tail(parts), Append(stack, Head(parts)))
        RECURSIVE Untar(_, _)
        Untar(members, written) ==
            IF members = <<>> THEN [result |-> "ok", tree |-> written]
            ELSE LET target == RealPath(LStripSep(Head(members).parts), <<>>)
                 IN  IF target = <<>> \/ Head(target) = ".."
                     THEN [result |-> "error", tree |-> written]
                     ELSE Untar(Tail(members),
                                Append(written, [Head(members) EXCEPT
                                                    !.parts = target]))
        Kept(parts) ==
            SelectSeq(parts, LAMBDA x : x \notin {"", "/", ".", ".."})
        RECURSIVE Unzip(_, _)
        Unzip(members, written) ==
            IF members = <<>> THEN [result |-> "ok", tree |-> written]
            ELSE IF Kept(Head(members).parts) = <<>>
            THEN [result |-> "error", tree |-> written]
            ELSE Unzip(Tail(members),
                       Append(written, [Head(members) EXCEPT
                                           !.parts = Kept(@)]))
    IN  IF kind = "raw" THEN Single(archive_name)
        ELSE IF blob.decodes # "ok"
        THEN [result |-> blob.decodes, tree |-> <<>>]
        ELSE IF kind = "gz"
        THEN Single(PathStem([parts |-> <<archive_name>>]))
        ELSE IF kind = "zip" THEN Unzip(blob.tree, <<>>)
        ELSE Untar(blob.tree, <<>>)

\* the scripts the loops of install_from_source copy, in order
SourceInstallList(scripts, repo) ==
    LET shallow == SelectSeq(scripts, LAMBDA f : ~(Len(f.parts) > 3))
        named   == SelectSeq(scripts,
                             LAMBDA f : Lower(PathName(f)) = Lower(repo))
    IN  IF shallow # <<>> THEN shallow
        ELSE IF named # <<>> THEN <<named[1]>>
        ELSE IF scripts # <<>> THEN <<scripts[1]>>
        ELSE <<>>

\* ------------------------------------------------------------------------
\* The world outside the program: what the release service, the download
\* server and the operator may answer.  Every answer is an input of a step.
\* ------------------------------------------------------------------------
\* PlatformInfo.detect() on the host of the runs
Host == [os |-> "linux", arch |-> "amd64"]

\* the parts of the directory tempfile.mkdtemp(prefix="hobbes_") returns
StagingRoot == <<"/", "tmp", "hobbes_x">>

Asset(name) == [name |-> name]

\* the releases the service may return
Rel1 == [tag_name |-> "v1",
         assets |-> <<Asset("t-linux-amd64.tgz"), Asset("SHA256SUMS")>>,
         tarball_url |-> "https://api/tarball/v1"]
Rel2 == [tag_name |-> "v2",
         assets |-> <<Asset("t-linux-gnu.zip"), Asset("t-linux-musl.zip")>>,
         tarball_url |-> ""]
Rel3 == [tag_name |-> "1",
         assets |-> <<Asset("t-darwin.zip")>>,
         tarball_url |-> "https://api/tarball/1"]
Releases == {Rel1, Rel2, Rel3}
NoRelease == [tag_name |-> "", assets |-> <<>>, tarball_url |-> ""]

\* two SHA-256 digests, as hexdigest() prints them
Sha1 == "1111111111111111111111111111111111111111111111111111111111111111"
Sha2 == "abcdefabcdefabcdefabcdefabcdefabcdefabcdefabcdefabcdefabcdefabcd"

File(parts, magic, xbit) == [parts |-> parts, magic |-> magic, xbit |-> xbit]

\* what the bytes of a download turn out to be when extract_archive reads
\* them: decodes says how the decoder chosen from the file name ends on
\* them, tree is what it unpacks, magic the first bytes of the file itself
TreeTwo   == <<File(<<"pkg", "README.md">>, "text", FALSE),
               File(<<"pkg", "b">>, "ELF", FALSE),
               File(<<"pkg", "bin", "a">>, "#!", TRUE)>>
Payloads ==
    {[decodes |-> "ok", magic |-> "gzip", tree |-> TreeTwo],
     [decodes |-> "ok", magic |-> "text", tree |-> <<File(<<"pkg", "README.md">>, "text", FALSE)>>],
     [decodes |-> "error", magic |-> "text", tree |-> <<>>],
     [decodes |-> "crash", magic |-> "gzip", tree |-> <<>>]}

\* what calculate_sha256 may return for a download
Shas == {Sha1, Sha2}

\* the texts download_text may return for a checksum asset
ChecksumTexts ==
    {[ok |-> TRUE, text |-> Sha1 \o "  t-linux-amd64.tgz\n"],
     [ok |-> TRUE, text |-> "ABCDEFABCDEFABCDEFABCDEFABCDEFABCDEFABCDEFABCDEFABCDEFABCDEFABCD"
                              \o " *T-Linux-amd64.tgz\r\n"],
     [ok |-> TRUE, text |-> Sha1 \o "  other.zip\n"],
     NoText}

\* what the release lookup may answer: a release, "error" for a GitHubError,
\* "crash" for an exception of the HTTP client that the command does not catch
LookupAnswers(version_tag) ==
    {[kind |-> "error", release |-> NoRelease],
     [kind |-> "crash", release |-> NoRelease]}
    \cup {[kind |-> "ok", release |-> r] :
             r \in {x \in Releases : version_tag \in {"", x.tag_name}}}

\* how download_file may end: "ok" with the file written, "http_error" for
\* a status other than 200, "connect_error" for a transport error before the
\* first byte is written
DownloadAnswers == {"ok", "http_error", "connect_error"}

\* find_best_assets on the host, for every release of the service
BestAssets == [r \in Releases |-> find_best_assets(r.assets, Host)]

\* find_best_asset on the host, for every release of the service
BestAsset == [r \in Releases |-> find_best_asset(r.assets, Host)]

\* verify_checksum for every release, asset, digest and checksum text
Verified ==
    [r \in Releases |-> [a \in Range(r.assets) |-> [sha \in Shas |->
        [fetched \in ChecksumTexts |->
            verify_checksum(sha, r.assets, a, fetched)]]]]

\* ------------------------------------------------------------------------
\* State
\* ------------------------------------------------------------------------
Procs == {1, 2}
\* the invocation that runs the commands
Main == 1
Names == {"a", "b"}

VARIABLES
    manifestFile,  \* the manifest file: NoFile or the document last written
    binDir,        \* bin directory: file name -> set of execute bits
    cacheDir,      \* cache directory: the names of its files
    staging,       \* staging directories that exist: id -> tree
    clock,         \* number of datetime.now() readings so far
    mem,           \* per invocation: its Manifest object (_packages)
    missed,        \* per invocation: the entries others wrote since it loaded
    lastCall,      \* the last Manifest method that returned
    pc,            \* position of the running command
    cmd,           \* its command line
    loc,           \* its local variables
    hist,          \* what the run did so far
    result,        \* how it ended: exit status and message
    broken         \* the last update that failed after the removal, and
                   \* whether any run so far ended in a failure

vars == <<manifestFile, binDir, cacheDir, staging, clock, mem, missed,
          lastCall, pc, cmd, loc, hist, result, broken>>

world == <<manifestFile, binDir, cacheDir, staging>>

\* an instant before the first reading of the clock
Earlier == [sec |-> 0, usec |-> 0]

\* datetime.now(): strictly later at every reading
Now == [sec |-> 1 + clock \div 2, usec |-> clock % 2]

NoManifest == [loaded |-> FALSE, packages |-> <<>>]

NoPackage == Package("", "", "", "", [sec |-> 0, usec |-> 0], <<>>, FALSE, "")

NoCmd == [kind |-> "none", spec |-> "", name |-> "", force |-> FALSE,
          source |-> FALSE, version_tag |-> "", asset_pattern |-> "",
          list_assets |-> FALSE]

NoLoc == [owner |-> "", repo |-> "", release |-> NoRelease, asset |-> NoAsset,
          matching |-> <<>>, choice |-> 0, archive_path |-> "", temp_dir |-> 0,
          found |-> <<>>, binaries |-> <<>>, package |-> NoPackage,
          todo |-> <<>>]

NoBroken == [name |-> "", tag |-> "", forced |-> FALSE, failed |-> FALSE]

NoHist == [pre |-> [file |-> NoFile, bin |-> <<>>, broken |-> NoBroken],
           answer |-> "none", wrote |-> {}, visited |-> <<>>, looked |-> {},
           downloaded |-> FALSE, created |-> {}, verified |-> FALSE,
           extracted |-> FALSE, removed |-> FALSE, copied |-> FALSE]

NoResult == [status |-> -1, outcome |-> ""]

NoCall == [proc |-> 0, op |-> "none", name |-> "", ret |-> FALSE]

\* package b as an earlier `install o/b` recorded it from release v1
Bystander ==
    Package("b", "o/b", ReleaseVersion(Rel1.tag_name), Rel1.tag_name, Earlier,
            NamesOf(find_executables(TreeTwo)), FALSE, BestAsset[Rel1].name)

\* the files at the start: none, or those the install of b left
StartFiles ==
    {[file |-> NoFile, bin |-> <<>>],
     [file |-> ManifestSave(DictSet(<<>>, "b", Bystander)),
      bin |-> CopyAll(<<>>, find_executables(TreeTwo))]}

Init ==
    /\ \E f \in StartFiles : manifestFile = f.file /\ binDir = f.bin
    /\ cacheDir = {}
    /\ staging = <<>>
    /\ clock = 0
    /\ mem = [p \in Procs |-> NoManifest]
    /\ missed = [p \in Procs |-> <<>>]
    /\ lastCall = NoCall
    /\ pc = "idle"
    /\ cmd = NoCmd
    /\ loc = NoLoc
    /\ hist = NoHist
    /\ result = NoResult
    /\ broken = NoBroken

\* ------------------------------------------------------------------------
\* core/manifest.py: the methods, as the new _packages and the new file
\* ------------------------------------------------------------------------
\* Manifest.add that reads the file again and keeps what it finds there
ManifestAddMerging(packages, f, package) ==
    LET found == ManifestLoad(f, Earlier)
        both  == [n \in (DOMAIN found) \cup (DOMAIN packages) |->
                     IF n \in DOMAIN packages THEN packages[n] ELSE found[n]]
        new   == DictSet(both, package.name, package)
    IN  [packages |-> new, file |-> ManifestSave(new), ret |-> TRUE]

\* Manifest.add
ManifestAdd(packages, f, package) ==
    LET new == DictSet(packages, package.name, package)
    IN  [packages |-> new, file |-> ManifestSave(new), ret |-> TRUE]

\* Manifest.remove without the call of save
ManifestRemoveUnsaved(packages, f, name) ==
    IF name \in DOMAIN packages
    THEN [packages |-> DictPop(packages, name), file |-> f, ret |-> TRUE]
    ELSE [packages |-> packages, file |-> f, ret |-> FALSE]

\* Manifest.remove: ret says whether a package was returned
ManifestRemove(packages, f, name) ==
    IF name \in DOMAIN packages
    THEN [packages |-> DictPop(packages, name),
          file |-> ManifestSave(DictPop(packages, name)), ret |-> TRUE]
    ELSE [packages |-> packages, file |-> f, ret |-> FALSE]

\* Manifest.pin and Manifest.unpin that set the flag of every package
ManifestSetPinAll(packages, f, name, flag) ==
    IF name \in DOMAIN packages
    THEN LET new == [n \in DOMAIN packages |->
                        [packages[n] EXCEPT !.pinned = flag]]
         IN  [packages |-> new, file |-> ManifestSave(new), ret |-> TRUE]
    ELSE [packages |-> packages, file |-> f, ret |-> FALSE]

\* Manifest.pin and Manifest.unpin: flag is the new value of pinned
ManifestSetPin(packages, f, name, flag) ==
    IF name \in DOMAIN packages
    THEN LET new == [packages EXCEPT ![name].pinned = flag]
         IN  [packages |-> new, file |-> ManifestSave(new), ret |-> TRUE]
    ELSE [packages |-> packages, file |-> f, ret |-> FALSE]

\* Manifest.has that looks for the name among the repos of the packages
ManifestHasRepo(packages, name) ==
    \E k \in DOMAIN packages : packages[k].repo = name

\* Manifest.has
ManifestHas(packages, name) == name \in DOMAIN packages

\* ------------------------------------------------------------------------
\* Invocations that use a Manifest object directly: construction, the four
\* mutating methods with arbitrary arguments, and the end of the invocation
\* ------------------------------------------------------------------------
\* the packages handed to Manifest.add
ArgPackages ==
    {Package("a", "o/a", "1", "v1", [sec |-> 0, usec |-> 0], <<"a">>, FALSE,
             "t-linux-amd64.tgz"),
     Package("a", "o/a", "2", "v2", [sec |-> 1, usec |-> 0], <<"a", "c">>,
             TRUE, "t-linux-musl.zip"),
     Package("b", "o/b", "2", "v2", [sec |-> 1, usec |-> 1], <<"b", "a">>,
             FALSE, "(source)")}

command == <<pc, cmd, loc, hist, result, broken>>

\* the entry of name n in a manifest document
AbsentEntry == [absent |-> TRUE]
Entry(f, n) ==
    IF f.exists /\ n \in DOMAIN f.packages THEN f.packages[n] ELSE AbsentEntry

\* the bookkeeping when invocation p returns from a method on name n that
\* left the file as f2: every other loaded invocation whose own entry of n
\* differs from the one now in the file has missed it
Returned(p, op, n, r) ==
    /\ mem' = [mem EXCEPT ![p].packages = r.packages]
    /\ manifestFile' = r.file
    /\ lastCall' = [proc |-> p, op |-> op, name |-> n, ret |-> r.ret]
    /\ missed' = [q \in Procs |->
          IF q = p \/ ~mem[q].loaded THEN DictPop(missed[q], n)
          ELSE IF Entry(r.file, n) # Entry(ManifestSave(mem[q].packages), n)
               THEN DictSet(missed[q], n, Entry(r.file, n))
               ELSE DictPop(missed[q], n)]

\* Manifest.__init__: the constructor loads the file
New(p) ==
    /\ pc = "idle"
    /\ ~mem[p].loaded
    /\ mem' = [mem EXCEPT ![p] = [loaded |-> TRUE,
                                  packages |-> ManifestLoad(manifestFile, Now)]]
    /\ missed' = [missed EXCEPT ![p] = <<>>]
    /\ lastCall' = [proc |-> p, op |-> "init", name |-> "", ret |-> TRUE]
    /\ UNCHANGED <<manifestFile, binDir, cacheDir, staging, clock, command>>

\* Manifest.__init__ when no other invocation is running
NewSolo(p) ==
    /\ \A q \in Procs : ~mem[q].loaded
    /\ New(p)

CallAdd(p, package) ==
    /\ pc = "idle"
    /\ mem[p].loaded
    /\ Returned(p, "add", package.name,
                ManifestAdd(mem[p].packages, manifestFile, package))
    /\ UNCHANGED <<binDir, cacheDir, staging, clock, command>>

CallRemove(p, n) ==
    /\ pc = "idle"
    /\ mem[p].loaded
    /\ Returned(p, "remove", n,
                ManifestRemove(mem[p].packages, manifestFile, n))
    /\ UNCHANGED <<binDir, cacheDir, staging, clock, command>>

CallPin(p, n) ==
    /\ pc = "idle"
    /\ mem[p].loaded
    /\ Returned(p, "pin", n,
                ManifestSetPin(mem[p].packages, manifestFile, n, TRUE))
    /\ UNCHANGED <<binDir, cacheDir, staging, clock, command>>

CallUnpin(p, n) ==
    /\ pc = "idle"
    /\ mem[p].loaded
    /\ Returned(p, "unpin", n,
                ManifestSetPin(mem[p].packages, manifestFile, n, FALSE))
    /\ UNCHANGED <<binDir, cacheDir, staging, clock, command>>

\* the invocation ends and its Manifest object is gone
Exit(p) ==
    /\ pc = "idle"
    /\ mem[p].loaded
    /\ mem' = [mem EXCEPT ![p] = NoManifest]
    /\ missed' = [missed EXCEPT ![p] = <<>>]
    /\ lastCall' = NoCall
    /\ UNCHANGED <<manifestFile, binDir, cacheDir, staging, clock, command>>

\* one invocation at a time, as the design assumes
NextManifest ==
    \E p \in Procs :
        \/ NewSolo(p)
        \/ \E package \in ArgPackages : CallAdd(p, package)
        \/ \E n \in Names : CallRemove(p, n)
        \/ \E n \in Names : CallPin(p, n)
        \/ \E n \in Names : CallUnpin(p, n)
        \/ Exit(p)

SpecManifest == Init /\ [][NextManifest]_vars

\* two invocations that may overlap
NextConc ==
    \E p \in Procs :
        \/ New(p)
        \/ \E package \in ArgPackages : CallAdd(p, package)
        \/ \E n \in Names : CallRemove(p, n)
        \/ \E n \in Names : CallPin(p, n)
        \/ \E n \in Names : CallUnpin(p, n)
        \/ Exit(p)

SpecConc == Init /\ [][NextConc]_vars

\* ------------------------------------------------------------------------
\* The commands, run by the invocation Main one at a time.  pc is the place
\* the command has reached; a run ends at "done" with its exit status.
\* ------------------------------------------------------------------------
InstallCmd(spec, force, source, version_tag, asset_pattern, list_assets) ==
    [kind |-> "install", spec |-> spec, name |-> "", force |-> force,
     source |-> source, version_tag |-> version_tag,
     asset_pattern |-> asset_pattern, list_assets |-> list_assets]

\* the command lines of install that are run
InstallCmds ==
    {InstallCmd("o/a", FALSE, FALSE, "", "", FALSE),
     InstallCmd("https://github.com/o/a.git", TRUE, FALSE, "", "", FALSE),
     InstallCmd("not a spec", FALSE, FALSE, "", "", FALSE),
     InstallCmd("o/a", TRUE, TRUE, "", "", FALSE),
     InstallCmd("o/a", TRUE, FALSE, "", "*MUSL*", FALSE),
     InstallCmd("o/a", TRUE, FALSE, "", "", TRUE)}

\* the package named on the command lines of update, pin and unpin
CmdNames == {"a"}

NameCmd(kind, name, force) ==
    [kind |-> kind, spec |-> "", name |-> name, force |-> force,
     source |-> FALSE, version_tag |-> "", asset_pattern |-> "",
     list_assets |-> FALSE]

RECURSIVE fnmatch(_, _)
\* fnmatch.fnmatch(name, pat) for patterns of literals, "*" and "?"
fnmatch(name, pat) ==
    IF pat = "" THEN name = ""
    ELSE IF Head(pat) = "*"
    THEN fnmatch(name, Tail(pat)) \/ (name # "" /\ fnmatch(Tail(name), pat))
    ELSE /\ name # ""
         /\ Head(pat) \in {"?", Head(name)}
         /\ fnmatch(Tail(name), Tail(pat))

\* find_asset_by_name: NoAsset stands for None
find_asset_by_name(assets, pattern) ==
    LET exact == {i \in DOMAIN assets : assets[i].name = pattern}
        glob  == {i \in DOMAIN assets :
                     fnmatch(Lower(assets[i].name), Lower(pattern))}
        first(S) == assets[CHOOSE i \in S : \A j \in S : i <= j]
    IN  IF exact # {} THEN first(exact)
        ELSE IF glob # {} THEN first(glob)
        ELSE NoAsset

\* cleanup_temp_dir under `if temp_dir:`
cleanup_temp_dir(dirs, temp_dir) ==
    IF temp_dir # 0 THEN DictPop(dirs, temp_dir) ELSE dirs

\* Path.unlink(missing_ok=True)
unlink(dir, name) == dir \ {name}

\* the directory tempfile.mkdtemp creates: a name that does not exist yet
FreshDir == CHOOSE d \in 1..(MaxStaging + 1) : d \notin DOMAIN staging

\* the record of broken is dropped when the entry of name n is rewritten
Mended(n) ==
    IF broken.name = n THEN [NoBroken EXCEPT !.failed = broken.failed]
    ELSE broken

\* the run ends: SystemExit(status), or status 1 after a traceback
EndRun(status, outcome) ==
    /\ pc' = "done"
    /\ result' = [status |-> status, outcome |-> outcome]

\* the run starts: hist remembers the files as they were
StartRun(c) ==
    /\ pc = "idle"
    /\ \A p \in Procs : ~mem[p].loaded
    /\ cmd' = c
    /\ hist' = [NoHist EXCEPT !.pre = [file |-> manifestFile, bin |-> binDir,
                                      broken |-> broken]]

\* Manifest() of the command
LoadMain ==
    mem' = [mem EXCEPT ![Main] = [loaded |-> TRUE,
                                  packages |-> ManifestLoad(manifestFile, Now)]]

\* a Manifest method called by the command returned r
MainReturned(op, n, r) ==
    /\ mem' = [mem EXCEPT ![Main].packages = r.packages]
    /\ manifestFile' = r.file
    /\ lastCall' = [proc |-> Main, op |-> op, name |-> n, ret |-> r.ret]

\* install (commands/install.py): from the start to the "already installed" check
InstallStart(c) ==
    /\ StartRun(c)
    /\ clock < MaxClock
    /\ LET parsed == parse_repo_spec(c.spec)
           packages == ManifestLoad(manifestFile, Now)
       IN  IF ~parsed.ok
           THEN /\ EndRun(1, "invalid_spec")
                /\ UNCHANGED <<mem, loc>>
           ELSE /\ LoadMain
                /\ loc' = [NoLoc EXCEPT !.owner = parsed.owner,
                                        !.repo = parsed.repo]
                /\ IF ManifestHas(packages, parsed.repo) /\ ~c.force
                   THEN EndRun(0, "already_installed")
                   ELSE pc' = "i_release" /\ UNCHANGED result
    /\ UNCHANGED <<world, clock, missed, lastCall, broken>>

\* install: the release lookup and the choice of what to install
InstallRelease ==
    /\ pc = "i_release"
    /\ \E ans \in LookupAnswers(cmd.version_tag) :
         LET release  == ans.release
             named    == find_asset_by_name(release.assets, cmd.asset_pattern)
             matching == BestAssets[release]
         IN  IF ans.kind = "error"
                 THEN EndRun(1, "github_error") /\ UNCHANGED loc
             ELSE IF ans.kind = "crash"
                 THEN EndRun(1, "crash") /\ UNCHANGED loc
             ELSE IF cmd.list_assets
                 THEN /\ EndRun(0, "list_assets")
                      /\ loc' = [loc EXCEPT !.release = release]
             ELSE IF cmd.source
                 THEN /\ pc' = "s_download" /\ UNCHANGED result
                      /\ loc' = [loc EXCEPT !.release = release]
             ELSE IF cmd.asset_pattern # ""
                 THEN IF named = NoAsset
                      THEN /\ EndRun(1, "no_asset")
                           /\ loc' = [loc EXCEPT !.release = release]
                      ELSE /\ pc' = "b_download" /\ UNCHANGED result
                           /\ loc' = [loc EXCEPT !.release = release,
                                                 !.asset = named]
             ELSE IF Len(matching) = 1
                 THEN /\ pc' = "b_download" /\ UNCHANGED result
                      /\ loc' = [loc EXCEPT !.release = release,
                                            !.matching = matching,
                                            !.asset = matching[1]]
             ELSE IF Len(matching) > 1
                 THEN /\ pc' = "i_prompt" /\ UNCHANGED result
                      /\ loc' = [loc EXCEPT !.release = release,
                                            !.matching = matching]
             ELSE /\ pc' = "i_confirm" /\ UNCHANGED result
                  /\ loc' = [loc EXCEPT !.release = release]
    /\ UNCHANGED <<world, clock, mem, missed, lastCall, cmd, hist, broken>>

\* install: "Select asset number", asked again until the answer is in range
InstallPrompt ==
    /\ pc = "i_prompt"
    /\ \E choice \in 0..(Len(loc.matching) + 1) :
         IF 1 <= choice /\ choice <= Len(loc.matching)
         THEN /\ pc' = "b_download"
              /\ loc' = [loc EXCEPT !.choice = choice,
                                    !.asset = loc.matching[choice]]
         ELSE UNCHANGED <<pc, loc>>
    /\ UNCHANGED <<world, clock, mem, missed, lastCall, cmd, hist, result,
                   broken>>

\* install: "Try installing from source?"
InstallConfirm ==
    /\ pc = "i_confirm"
    /\ \E yes \in BOOLEAN :
         IF yes THEN pc' = "s_download" /\ UNCHANGED result
         ELSE EndRun(1, "no_asset")
    /\ UNCHANGED <<world, clock, mem, missed, lastCall, cmd, loc, hist, broken>>

\* download_file(url, filename=filename) and what the caller does with its
\* end: failStatus is the exit status of the command after a DownloadError
Download(filename, okPc, failStatus) ==
    \E ans \in DownloadAnswers :
        /\ IF ans = "ok"
           THEN /\ cacheDir' = cacheDir \cup {filename}
                /\ hist' = [hist EXCEPT !.downloaded = TRUE, !.answer = ans,
                                        !.wrote = {filename}]
           ELSE /\ hist' = [hist EXCEPT !.answer = ans]
                /\ UNCHANGED cacheDir
        /\ IF ans = "ok"
           THEN /\ pc' = okPc /\ UNCHANGED result
                /\ loc' = [loc EXCEPT !.archive_path = filename]
           ELSE /\ UNCHANGED loc
                /\ IF ans = "http_error"
                   THEN EndRun(failStatus, "download_error")
                   ELSE EndRun(1, "crash")

\* the except clause of verify_checksum without archive_path.unlink
VerifyKeeps(okPc, failStatus) ==
    \E sha \in Shas, fetched \in ChecksumTexts :
        IF Verified[loc.release][loc.asset][sha][fetched]
        THEN /\ pc' = okPc /\ UNCHANGED result
             /\ hist' = [hist EXCEPT !.verified = TRUE]
             /\ UNCHANGED cacheDir
        ELSE /\ EndRun(failStatus, "checksum_mismatch")
             /\ UNCHANGED <<cacheDir, hist>>

\* verify_checksum(archive_path, release.assets, asset) and its except clause
Verify(okPc, failStatus) ==
    \E sha \in Shas, fetched \in ChecksumTexts :
        IF Verified[loc.release][loc.asset][sha][fetched]
        THEN /\ pc' = okPc /\ UNCHANGED result
             /\ hist' = [hist EXCEPT !.verified = TRUE]
             /\ UNCHANGED cacheDir
        ELSE /\ EndRun(failStatus, "checksum_mismatch")
             /\ cacheDir' = unlink(cacheDir, loc.archive_path)
             /\ UNCHANGED hist

\* temp_dir = extract_archive(archive_path) inside try / finally: when it
\* raises, temp_dir is still None and the finally clause only unlinks the
\* archive
Extract(okPc, failStatus) ==
    \E payload \in Payloads :
    LET out == ExtractOutcome(loc.archive_path, payload)
        d   == FreshDir
    IN  /\ out.result # "ok" => Cardinality(DOMAIN staging) < MaxStaging
        /\ hist' = [hist EXCEPT !.created = @ \cup {d}, !.extracted = TRUE]
        /\ staging' = DictSet(staging, d, out.tree)
        /\ IF out.result = "ok"
           THEN /\ pc' = okPc /\ UNCHANGED result
                /\ loc' = [loc EXCEPT !.temp_dir = d]
                /\ UNCHANGED cacheDir
           ELSE /\ UNCHANGED loc
                /\ cacheDir' = unlink(cacheDir, loc.archive_path)
                /\ IF out.result = "error"
                   THEN EndRun(failStatus, "extraction_error")
                   ELSE EndRun(1, "crash")

\* download_file of install_from_binary, install_from_source or
\* update_package when the stream breaks after the file was opened for
\* writing: iter_bytes raises a transport error of httpx, which is no
\* DownloadError, and the part written so far stays where it is
DownloadCut ==
    /\ pc \in {"b_download", "s_download", "u_download"}
    /\ pc = "s_download" => loc.release.tarball_url # ""
    /\ Cardinality(cacheDir) < MaxLeftover
    /\ LET filename == IF pc = "s_download"
                        THEN loc.repo \o "-" \o loc.release.tag_name \o ".tar.gz"
                        ELSE loc.asset.name
       IN  /\ cacheDir' = cacheDir \cup {filename}
           /\ hist' = [hist EXCEPT !.answer = "interrupted",
                                   !.wrote = {filename}]
    /\ EndRun(1, "crash")
    /\ UNCHANGED <<manifestFile, binDir, staging, clock, mem, missed, lastCall,
                   cmd, loc, broken>>

\* install_from_binary: the download
BinDownload ==
    /\ pc = "b_download"
    /\ Download(loc.asset.name, "b_verify", 1)
    /\ UNCHANGED <<manifestFile, binDir, staging, clock, mem, missed, lastCall,
                   cmd, broken>>

\* install_from_binary: the checksum
BinVerify ==
    /\ pc = "b_verify"
    /\ Verify("b_extract", 1)
    /\ UNCHANGED <<manifestFile, binDir, staging, clock, mem, missed, lastCall,
                   cmd, loc, broken>>

\* install_from_binary: extract_archive
BinExtract ==
    /\ pc = "b_extract"
    /\ Extract("b_install", 1)
    /\ UNCHANGED <<manifestFile, binDir, clock, mem, missed, lastCall, cmd,
                   broken>>

\* install_binaries and its caller without the check for an empty result
CopyBinariesUnchecked(okPc, failStatus, finallyFirst) ==
    LET executables == find_executables(staging[loc.temp_dir])
    IN  \E copied \in 0..Len(executables) :
          /\ binDir' = CopyAll(binDir, SubSeq(executables, 1, copied))
          /\ hist' = [hist EXCEPT !.copied = (copied > 0)]
          /\ IF copied = Len(executables)
             THEN /\ pc' = okPc /\ UNCHANGED result
                  /\ loc' = [loc EXCEPT !.binaries = NamesOf(executables)]
                  /\ IF finallyFirst
                     THEN /\ staging' = cleanup_temp_dir(staging, loc.temp_dir)
                          /\ cacheDir' = unlink(cacheDir, loc.archive_path)
                     ELSE UNCHANGED <<staging, cacheDir>>
             ELSE /\ UNCHANGED loc
                  /\ staging' = cleanup_temp_dir(staging, loc.temp_dir)
                  /\ cacheDir' = unlink(cacheDir, loc.archive_path)
                  /\ EndRun(1, "crash")

\* install_binaries(temp_dir): copied files one by one; copied < all stands
\* for an OSError of a copy, which no except clause names.  Every end but
\* the good one runs the finally clause of the caller; finallyFirst says
\* that the good end runs it too, before the manifest is written.
CopyBinaries(okPc, failStatus, finallyFirst) ==
    LET executables == find_executables(staging[loc.temp_dir])
    IN  \E copied \in 0..Len(executables) :
          /\ binDir' = CopyAll(binDir, SubSeq(executables, 1, copied))
          /\ hist' = [hist EXCEPT !.copied = (copied > 0)]
          /\ IF copied = Len(executables) /\ executables # <<>>
             THEN /\ pc' = okPc /\ UNCHANGED result
                  /\ loc' = [loc EXCEPT !.binaries = NamesOf(executables)]
                  /\ IF finallyFirst
                     THEN /\ staging' = cleanup_temp_dir(staging, loc.temp_dir)
                          /\ cacheDir' = unlink(cacheDir, loc.archive_path)
                     ELSE UNCHANGED <<staging, cacheDir>>
             ELSE /\ UNCHANGED loc
                  /\ staging' = cleanup_temp_dir(staging, loc.temp_dir)
                  /\ cacheDir' = unlink(cacheDir, loc.archive_path)
                  /\ IF copied = Len(executables)
                     THEN EndRun(failStatus, "no_binaries")
                     ELSE EndRun(1, "crash")

\* install_from_binary: install_binaries and the check for an empty result
BinInstall ==
    /\ pc = "b_install"
    /\ CopyBinaries("b_record", 1, FALSE)
    /\ UNCHANGED <<manifestFile, clock, mem, missed, lastCall, cmd, broken>>

\* install_from_binary: manifest.add, return True, and the finally clause
BinRecord ==
    /\ pc = "b_record"
    /\ MainReturned("add", loc.repo,
          ManifestAdd(mem[Main].packages, manifestFile,
              Package(loc.repo, loc.owner \o "/" \o loc.repo,
                      ReleaseVersion(loc.release.tag_name),
                      loc.release.tag_name, Now, loc.binaries, FALSE,
                      loc.asset.name)))
    /\ clock' = clock + 1
    /\ staging' = cleanup_temp_dir(staging, loc.temp_dir)
    /\ cacheDir' = unlink(cacheDir, loc.archive_path)
    /\ broken' = Mended(loc.repo)
    /\ EndRun(0, "installed")
    /\ UNCHANGED <<binDir, missed, cmd, loc, hist>>

\* install_from_source: the tarball check and the download
SrcDownload ==
    /\ pc = "s_download"
    /\ IF loc.release.tarball_url = ""
       THEN /\ EndRun(1, "no_tarball")
            /\ UNCHANGED <<cacheDir, loc, hist>>
       ELSE Download(loc.repo \o "-" \o loc.release.tag_name \o ".tar.gz",
                     "s_extract", 1)
    /\ UNCHANGED <<manifestFile, binDir, staging, clock, mem, missed, lastCall,
                   cmd, broken>>

\* install_from_source: extract_archive
SrcExtract ==
    /\ pc = "s_extract"
    /\ Extract("s_confirm", 1)
    /\ UNCHANGED <<manifestFile, binDir, clock, mem, missed, lastCall, cmd,
                   broken>>

\* install_from_source: find_scripts and "Install these scripts?"
SrcConfirm ==
    /\ pc = "s_confirm"
    /\ LET scripts == find_scripts(staging[loc.temp_dir], StagingRoot, loc.repo)
       IN  \E yes \in BOOLEAN :
             IF scripts # <<>> /\ yes
             THEN /\ pc' = "s_install" /\ UNCHANGED result
                  /\ loc' = [loc EXCEPT !.found = scripts]
                  /\ UNCHANGED <<staging, cacheDir>>
             ELSE /\ EndRun(1, IF scripts = <<>> THEN "no_scripts"
                               ELSE "cancelled")
                  /\ staging' = cleanup_temp_dir(staging, loc.temp_dir)
                  /\ cacheDir' = unlink(cacheDir, loc.archive_path)
                  /\ UNCHANGED loc
    /\ UNCHANGED <<manifestFile, binDir, clock, mem, missed, lastCall, cmd,
                   hist, broken>>

\* install_from_source: the copies, manifest.add and the finally clause;
\* copied < all stands for an OSError of a copy
SrcInstall ==
    /\ pc = "s_install"
    /\ LET chosen == SourceInstallList(loc.found, loc.repo)
       IN  \E copied \in 0..Len(chosen) :
             /\ binDir' = CopyAll(binDir, SubSeq(chosen, 1, copied))
             /\ hist' = [hist EXCEPT !.copied = (copied > 0)]
             /\ staging' = cleanup_temp_dir(staging, loc.temp_dir)
             /\ cacheDir' = unlink(cacheDir, loc.archive_path)
             /\ IF copied = Len(chosen)
                THEN /\ MainReturned("add", loc.repo,
                          ManifestAdd(mem[Main].packages, manifestFile,
                              Package(loc.repo, loc.owner \o "/" \o loc.repo,
                                      ReleaseVersion(loc.release.tag_name),
                                      loc.release.tag_name, Now,
                                      NamesOf(chosen), FALSE, "(source)")))
                     /\ clock' = clock + 1
                     /\ loc' = [loc EXCEPT !.binaries = NamesOf(chosen)]
                     /\ broken' = Mended(loc.repo)
                     /\ EndRun(0, "installed")
                ELSE /\ EndRun(1, "crash")
                     /\ UNCHANGED <<manifestFile, mem, lastCall, clock, loc,
                                    broken>>
    /\ UNCHANGED <<missed, cmd>>

\* update (commands/update.py): from the start of the command to the pinned
\* check and the split of package.repo in update_package
UpdateStart(c) ==
    /\ StartRun(c)
    /\ clock < MaxClock
    /\ LoadMain
    /\ LET packages == ManifestLoad(manifestFile, Now)
           package  == packages[c.name]
           parts    == Split(package.repo, "/")
       IN  IF c.name \notin DOMAIN packages
               THEN EndRun(1, "not_installed") /\ UNCHANGED loc
           ELSE IF package.pinned /\ ~c.force
               THEN /\ EndRun(0, "pinned")
                    /\ loc' = [NoLoc EXCEPT !.package = package]
           ELSE IF Len(parts) # 2
               THEN /\ EndRun(1, "crash")
                    /\ loc' = [NoLoc EXCEPT !.package = package]
           ELSE /\ pc' = "u_release" /\ UNCHANGED result
                /\ loc' = [NoLoc EXCEPT !.package = package,
                                        !.owner = parts[1], !.repo = parts[2]]
    /\ UNCHANGED <<world, clock, missed, lastCall, broken>>

\* update_package: the release lookup, the version check, find_best_asset
UpdRelease ==
    /\ pc = "u_release"
    /\ \E ans \in LookupAnswers("") :
         LET release == ans.release
             asset   == BestAsset[release]
         IN  IF ans.kind = "error"
                 THEN EndRun(0, "github_error") /\ UNCHANGED loc
             ELSE IF ans.kind = "crash"
                 THEN EndRun(1, "crash") /\ UNCHANGED loc
             ELSE IF ReleaseVersion(release.tag_name) = loc.package.version
                     /\ ~cmd.force
                 THEN /\ EndRun(0, "up_to_date")
                      /\ loc' = [loc EXCEPT !.release = release]
             ELSE IF asset = NoAsset
                 THEN /\ EndRun(0, "no_asset")
                      /\ loc' = [loc EXCEPT !.release = release]
             ELSE /\ pc' = "u_download" /\ UNCHANGED result
                  /\ loc' = [loc EXCEPT !.release = release, !.asset = asset]
    /\ hist' = [hist EXCEPT !.looked = @ \cup {loc.package.name}]
    /\ UNCHANGED <<world, clock, mem, missed, lastCall, cmd, broken>>

\* update_package without the call of verify_checksum
UpdDownloadUnverified ==
    /\ pc = "u_download"
    /\ Download(loc.asset.name, "u_remove", 0)
    /\ UNCHANGED <<manifestFile, binDir, staging, clock, mem, missed, lastCall,
                   cmd, broken>>

\* update_package: the download
UpdDownload ==
    /\ pc = "u_download"
    /\ Download(loc.asset.name, "u_verify", 0)
    /\ UNCHANGED <<manifestFile, binDir, staging, clock, mem, missed, lastCall,
                   cmd, broken>>

\* update_package: the checksum
UpdVerify ==
    /\ pc = "u_verify"
    /\ Verify("u_remove", 0)
    /\ UNCHANGED <<manifestFile, binDir, staging, clock, mem, missed, lastCall,
                   cmd, loc, broken>>

\* update_package that also drops the entry when it removes the binaries
UpdRemoveOldForgets ==
    /\ pc = "u_remove"
    /\ binDir' = uninstall_binaries(binDir, loc.package.binaries)
    /\ MainReturned("remove", loc.package.name,
          ManifestRemove(mem[Main].packages, manifestFile, loc.package.name))
    /\ hist' = [hist EXCEPT !.removed = TRUE]
    /\ pc' = "u_extract"
    /\ UNCHANGED <<cacheDir, staging, clock, missed, cmd, loc, result, broken>>

\* update_package that records the new release when it removes the binaries
UpdRemoveOldRecords ==
    /\ pc = "u_remove"
    /\ binDir' = uninstall_binaries(binDir, loc.package.binaries)
    /\ MainReturned("add", loc.package.name,
          ManifestAdd(mem[Main].packages, manifestFile,
              [loc.package EXCEPT
                  !.version = ReleaseVersion(loc.release.tag_name),
                  !.tag = loc.release.tag_name]))
    /\ hist' = [hist EXCEPT !.removed = TRUE]
    /\ pc' = "u_extract"
    /\ UNCHANGED <<cacheDir, staging, clock, missed, cmd, loc, result, broken>>

\* update_package: uninstall_binaries(package.binaries)
UpdRemoveOld ==
    /\ pc = "u_remove"
    /\ binDir' = uninstall_binaries(binDir, loc.package.binaries)
    /\ hist' = [hist EXCEPT !.removed = TRUE]
    /\ pc' = "u_extract"
    /\ UNCHANGED <<manifestFile, cacheDir, staging, clock, mem, missed,
                   lastCall, cmd, loc, result, broken>>

\* the update of the package failed after its old binaries were removed:
\* broken remembers of which package, for which release and whether forced
Broke ==
    broken' = IF pc' = "done"
              THEN [name |-> loc.package.name, tag |-> loc.release.tag_name,
                    forced |-> cmd.force, failed |-> broken.failed]
              ELSE broken

\* update_package: extract_archive
UpdExtract ==
    /\ pc = "u_extract"
    /\ Extract("u_install", 0)
    /\ Broke
    /\ UNCHANGED <<manifestFile, binDir, clock, mem, missed, lastCall, cmd>>

\* update_package: install_binaries, the check for an empty result and the
\* finally clause
UpdInstall ==
    /\ pc = "u_install"
    /\ CopyBinaries("u_record", 0, TRUE)
    /\ Broke
    /\ UNCHANGED <<manifestFile, clock, mem, missed, lastCall, cmd>>

\* update_package that builds the new entry with the default of pinned
UpdRecordUnpins ==
    /\ pc = "u_record"
    /\ MainReturned("add", loc.package.name,
          ManifestAdd(mem[Main].packages, manifestFile,
              Package(loc.package.name, loc.package.repo,
                      ReleaseVersion(loc.release.tag_name),
                      loc.release.tag_name, Now, loc.binaries,
                      FALSE, loc.asset.name)))
    /\ clock' = clock + 1
    /\ broken' = Mended(loc.package.name)
    /\ EndRun(0, "updated")
    /\ UNCHANGED <<binDir, cacheDir, staging, missed, cmd, loc, hist>>

\* update_package: manifest.add(updated_package) and return True
UpdRecord ==
    /\ pc = "u_record"
    /\ MainReturned("add", loc.package.name,
          ManifestAdd(mem[Main].packages, manifestFile,
              Package(loc.package.name, loc.package.repo,
                      ReleaseVersion(loc.release.tag_name),
                      loc.release.tag_name, Now, loc.binaries,
                      loc.package.pinned, loc.asset.name)))
    /\ clock' = clock + 1
    /\ broken' = Mended(loc.package.name)
    /\ EndRun(0, "updated")
    /\ UNCHANGED <<binDir, cacheDir, staging, missed, cmd, loc, hist>>

\* upgrade_all whose loop ends at the first pinned package
UpgradeAllStops(force) ==
    \/ /\ StartRun(NameCmd("upgrade-all", "", force))
       /\ LoadMain
       /\ LET packages == ManifestLoad(manifestFile, Now)
          IN  /\ clock + Cardinality(DOMAIN packages) <= MaxClock
              /\ IF DOMAIN packages = {}
                 THEN EndRun(0, "no_packages") /\ loc' = NoLoc
                 ELSE \E order \in [1..Cardinality(DOMAIN packages) ->
                                        DOMAIN packages] :
                        /\ Range(order) = DOMAIN packages
                        /\ pc' = "g_loop" /\ UNCHANGED result
                        /\ loc' = [NoLoc EXCEPT !.todo =
                                      [i \in DOMAIN order |-> packages[order[i]]]]
       /\ UNCHANGED <<world, clock, missed, lastCall, broken>>
    \/ /\ cmd = NameCmd("upgrade-all", "", force)
       /\ pc \in {"g_loop", "done"}
       /\ result.outcome # "crash"
       /\ loc.todo # <<>>
       /\ LET package == Head(loc.todo)
              parts   == Split(package.repo, "/")
              next    == [NoLoc EXCEPT !.package = package,
                                       !.todo = Tail(loc.todo)]
          IN  IF package.pinned /\ ~force
                  THEN EndRun(0, "pinned") /\ loc' = [next EXCEPT !.todo = <<>>]
              ELSE IF Len(parts) # 2
                  THEN EndRun(1, "crash") /\ loc' = next
              ELSE /\ pc' = "u_release" /\ result' = NoResult
                   /\ loc' = [next EXCEPT !.owner = parts[1],
                                          !.repo = parts[2]]
       /\ hist' = [hist EXCEPT !.visited = Append(@, Head(loc.todo).name)]
       /\ UNCHANGED <<world, clock, mem, missed, lastCall, cmd, broken>>

\* upgrade-all (commands/update.py): the start of upgrade_all, and its loop
\* whenever update_package has returned, up to the pinned check and the
\* split of package.repo of the next call of update_package.  todo holds
\* the packages of list_packages() not yet handed to update_package,
\* visited the names handed to it so far.
UpgradeAll(force) ==
    \/ /\ StartRun(NameCmd("upgrade-all", "", force))
       /\ LoadMain
       /\ LET packages == ManifestLoad(manifestFile, Now)
          IN  /\ clock + Cardinality(DOMAIN packages) <= MaxClock
              /\ IF DOMAIN packages = {}
                 THEN EndRun(0, "no_packages") /\ loc' = NoLoc
                 ELSE \E order \in [1..Cardinality(DOMAIN packages) ->
                                        DOMAIN packages] :
                        /\ Range(order) = DOMAIN packages
                        /\ pc' = "g_loop" /\ UNCHANGED result
                        /\ loc' = [NoLoc EXCEPT !.todo =
                                      [i \in DOMAIN order |-> packages[order[i]]]]
       /\ UNCHANGED <<world, clock, missed, lastCall, broken>>
    \/ /\ cmd = NameCmd("upgrade-all", "", force)
       /\ pc \in {"g_loop", "done"}
       /\ result.outcome # "crash"
       /\ loc.todo # <<>>
       /\ LET package == Head(loc.todo)
              parts   == Split(package.repo, "/")
              next    == [NoLoc EXCEPT !.package = package,
                                       !.todo = Tail(loc.todo)]
          IN  IF package.pinned /\ ~force
                  THEN EndRun(0, "pinned") /\ loc' = next
              ELSE IF Len(parts) # 2
                  THEN EndRun(1, "crash") /\ loc' = next
              ELSE /\ pc' = "u_release" /\ result' = NoResult
                   /\ loc' = [next EXCEPT !.owner = parts[1],
                                          !.repo = parts[2]]
       /\ hist' = [hist EXCEPT !.visited = Append(@, Head(loc.todo).name)]
       /\ UNCHANGED <<world, clock, mem, missed, lastCall, cmd, broken>>

\* uninstall that treats a package that is not installed as removed
UninstallAbsentOk(c) ==
    /\ StartRun(c)
    /\ LET packages == ManifestLoad(manifestFile, Now)
           r == ManifestRemove(packages, manifestFile, c.name)
       IN  /\ binDir' = uninstall_binaries(binDir,
                            IF c.name \in DOMAIN packages
                            THEN packages[c.name].binaries ELSE <<>>)
           /\ mem' = [mem EXCEPT ![Main] = [loaded |-> TRUE,
                                            packages |-> r.packages]]
           /\ manifestFile' = r.file
           /\ lastCall' = [proc |-> Main, op |-> "remove",
                           name |-> c.name, ret |-> r.ret]
           /\ loc' = [NoLoc EXCEPT !.package =
                         IF c.name \in DOMAIN packages
                         THEN packages[c.name] ELSE NoPackage]
           /\ broken' = Mended(c.name)
           /\ EndRun(0, "uninstalled")
    /\ UNCHANGED <<cacheDir, staging, clock, missed>>

\* uninstall (commands/uninstall.py)
Uninstall(c) ==
    /\ StartRun(c)
    /\ LET packages == ManifestLoad(manifestFile, Now)
           r == ManifestRemove(packages, manifestFile, c.name)
       IN  IF c.name \notin DOMAIN packages
           THEN /\ LoadMain
                /\ EndRun(1, "not_installed")
                /\ UNCHANGED <<manifestFile, binDir, lastCall, loc, broken>>
           ELSE /\ binDir' = uninstall_binaries(binDir, packages[c.name].binaries)
                /\ mem' = [mem EXCEPT ![Main] = [loaded |-> TRUE,
                                                 packages |-> r.packages]]
                /\ manifestFile' = r.file
                /\ lastCall' = [proc |-> Main, op |-> "remove",
                                name |-> c.name, ret |-> r.ret]
                /\ loc' = [NoLoc EXCEPT !.package = packages[c.name]]
                /\ broken' = Mended(c.name)
                /\ EndRun(0, "uninstalled")
    /\ UNCHANGED <<cacheDir, staging, clock, missed>>

\* pin and unpin (commands/pin.py): flag is TRUE for pin, FALSE for unpin
PinCommand(c, flag) ==
    /\ StartRun(c)
    /\ LET packages == ManifestLoad(manifestFile, Now)
           r == ManifestSetPin(packages, manifestFile, c.name, flag)
       IN  IF ~ManifestHas(packages, c.name)
           THEN /\ LoadMain
                /\ EndRun(1, "not_installed")
                /\ UNCHANGED <<manifestFile, lastCall, loc>>
           ELSE IF packages[c.name].pinned = flag
           THEN /\ LoadMain
                /\ EndRun(0, "no_change")
                /\ loc' = [NoLoc EXCEPT !.package = packages[c.name]]
                /\ UNCHANGED <<manifestFile, lastCall>>
           ELSE /\ mem' = [mem EXCEPT ![Main] = [loaded |-> TRUE,
                                                 packages |-> r.packages]]
                /\ manifestFile' = r.file
                /\ lastCall' = [proc |-> Main,
                                op |-> IF flag THEN "pin" ELSE "unpin",
                                name |-> c.name, ret |-> r.ret]
                /\ loc' = [NoLoc EXCEPT !.package = packages[c.name]]
                /\ EndRun(0, "done")
    /\ UNCHANGED <<binDir, cacheDir, staging, clock, missed, broken>>

\* the process of the command is gone; the next command may start.  A run
\* failed unless it did what it was asked to do or found nothing to do.
Finish ==
    /\ pc = "done"
    /\ pc' = "idle"
    /\ cmd' = NoCmd
    /\ loc' = NoLoc
    /\ hist' = NoHist
    /\ result' = NoResult
    /\ lastCall' = NoCall
    /\ mem' = [mem EXCEPT ![Main] = NoManifest]
    /\ broken' = [broken EXCEPT !.failed =
                      @ \/ result.outcome \notin
                             {"installed", "updated", "uninstalled", "done",
                              "no_change", "already_installed", "up_to_date",
                              "pinned", "list_assets", "no_packages"}]
    /\ UNCHANGED <<world, clock, missed>>

Next ==
    \/ \E c \in InstallCmds : InstallStart(c)
    \/ InstallRelease
    \/ InstallPrompt
    \/ InstallConfirm
    \/ BinDownload
    \/ BinVerify
    \/ BinExtract
    \/ BinInstall
    \/ BinRecord
    \/ SrcDownload
    \/ SrcExtract
    \/ SrcConfirm
    \/ SrcInstall
    \/ \E n \in CmdNames, force \in BOOLEAN :
           UpdateStart(NameCmd("update", n, force))
    \/ UpdRelease
    \/ UpdDownload
    \/ UpdVerify
    \/ UpdRemoveOld
    \/ UpdExtract
    \/ UpdInstall
    \/ UpdRecord
    \/ \E n \in Names : Uninstall(NameCmd("uninstall", n, FALSE))
    \/ \E n \in CmdNames : PinCommand(NameCmd("pin", n, FALSE), TRUE)
    \/ \E n \in CmdNames : PinCommand(NameCmd("unpin", n, FALSE), FALSE)
    \/ Finish

Spec == Init /\ [][Next]_vars



\* install and update of package a where a download may also break midway
NextDownload ==
    \/ \E c \in {x \in InstallCmds : x.asset_pattern = "" /\ ~x.list_assets} :
           InstallStart(c)
    \/ InstallRelease
    \/ InstallPrompt
    \/ InstallConfirm
    \/ BinDownload
    \/ BinVerify
    \/ BinExtract
    \/ BinInstall
    \/ BinRecord
    \/ SrcDownload
    \/ SrcExtract
    \/ SrcConfirm
    \/ SrcInstall
    \/ \E n \in CmdNames : UpdateStart(NameCmd("update", n, FALSE))
    \/ UpdRelease
    \/ UpdDownload
    \/ UpdVerify
    \/ UpdRemoveOld
    \/ UpdExtract
    \/ UpdInstall
    \/ UpdRecord
    \/ DownloadCut
    \/ Finish

SpecDownload == Init /\ [][NextDownload]_vars

\* the commands that take the name of a package, on a and on b, where a
\* download may break midway and leave its part in the cache
NextNames ==
    \/ \E n \in Names, force \in BOOLEAN :
           UpdateStart(NameCmd("update", n, force))
    \/ UpdRelease
    \/ UpdDownload
    \/ UpdVerify
    \/ UpdRemoveOld
    \/ UpdExtract
    \/ UpdInstall
    \/ UpdRecord
    \/ DownloadCut
    \/ \E n \in Names : Uninstall(NameCmd("uninstall", n, FALSE))
    \/ \E n \in Names : PinCommand(NameCmd("pin", n, FALSE), TRUE)
    \/ \E n \in Names : PinCommand(NameCmd("unpin", n, FALSE), FALSE)
    \/ Finish

SpecNames == Init /\ [][NextNames]_vars

\* update and upgrade-all where packages a and b are installed from release
\* v1, each pinned or not
InitUpgrade ==
    /\ cacheDir = {}
    /\ staging = <<>>
    /\ clock = 0
    /\ mem = [p \in Procs |-> NoManifest]
    /\ missed = [p \in Procs |-> <<>>]
    /\ lastCall = NoCall
    /\ pc = "idle"
    /\ cmd = NoCmd
    /\ loc = NoLoc
    /\ hist = NoHist
    /\ result = NoResult
    /\ broken = NoBroken
    /\ \E names \in SUBSET Names, pins \in SUBSET Names :
          /\ pins \subseteq names
          /\ manifestFile =
                 IF names = {} THEN NoFile
                 ELSE ManifestSave([n \in names |->
                          [Bystander EXCEPT !.name = n, !.repo = "o/" \o n,
                                            !.pinned = n \in pins]])
          /\ binDir = IF names = {} THEN <<>>
                      ELSE CopyAll(<<>>, find_executables(TreeTwo))

NextUpgrade ==
    \/ \E n \in Names, force \in BOOLEAN :
           UpdateStart(NameCmd("update", n, force))
    \/ \E force \in BOOLEAN : UpgradeAll(force)
    \/ UpdRelease
    \/ UpdDownload
    \/ UpdVerify
    \/ UpdRemoveOld
    \/ UpdExtract
    \/ UpdInstall
    \/ UpdRecord

SpecUpgrade == InitUpgrade /\ [][NextUpgrade]_vars

\* ------------------------------------------------------------------------
\* The functions of core/, each called on its own with arguments of its domain
\* ------------------------------------------------------------------------
\* largest number of assets of a release
MaxAssets == 3
\* the largest number of members of an archive handed to extract_archive
MaxMembers == 2

\* the largest number of files of a tree handed to find_scripts
MaxFiles == 3

\* the largest number of lines of a checksum file handed to
\* parse_checksum_file
MaxLines == 2

\* largest number of entries of a JSON list of the service
MaxListed == 2

\* what PlatformInfo.detect() may return: the three systems and machines it
\* knows, and a system and a machine it passes on as they are
Platforms ==
    {Host, [os |-> "darwin", arch |-> "arm64"],
     [os |-> "windows", arch |-> "386"], [os |-> "freebsd", arch |-> "riscv64"]}

\* names of release assets
AssetNames ==
    {"t-linux-amd64.tar.gz", "T-Linux-x86_64.TGZ", "t-macos-arm64.zip",
     "t-win32.exe", "t-universal-amd64.tar.xz", "t-src.tar.gz",
     "t-linux-amd64.tar.gz.sha256", "t-any-linux.TXT"}

\* the asset lists of at most MaxAssets assets, of five of the names
AssetLists ==
    LET names == AssetNames \ {"t-win32.exe", "t-src.tar.gz", "t-any-linux.TXT"}
    IN  UNION {[1..n -> {Asset(a) : a \in names}] : n \in 0..MaxAssets}

\* what the service may answer to a request: nothing (a transport error),
\* or a status and a JSON list of at most MaxListed entries, of which drafts
\* and prereleases are marked and the others leave the two keys out; the
\* JSON object of one release is given as the list of that one entry, and
\* the items of a search as entries of which tag_name is the full_name
Responses ==
    LET data == {[tag_name |-> "v1"],
                 [tag_name |-> "v2", prerelease |-> TRUE],
                 [tag_name |-> "v3", draft |-> TRUE, prerelease |-> FALSE]}
    IN  {[answered |-> FALSE, status |-> 0, json |-> <<>>]} \cup
        {[answered |-> TRUE, status |-> st, json |-> js] :
            st \in {200, 403, 404, 500},
            js \in UNION {[1..n -> data] : n \in 0..MaxListed}}

\* a call of function fn with arguments args, the only one of the run,
\* returns ret
Call(fn, args, ret) ==
    /\ cmd = NoCmd
    /\ cmd' = [kind |-> fn, args |-> args]
    /\ result' = ret
    /\ UNCHANGED <<world, clock, mem, missed, lastCall, pc, loc, hist, broken>>

NextCalls ==
    \/ cmd = NoCmd /\ \E a \in AssetNames \cup {"tool-darwin-amd64.tar.gz",
                                             "installer-darwin.zip",
                                             "tool_windows_x64.zip"},
          p \in Platforms \cup {[os |-> "windows", arch |-> "amd64"]} :
           Call("score_asset", <<Asset(a), p>>, score_asset(Asset(a), p))
    \/ cmd = NoCmd /\ \E A \in AssetLists, p \in Platforms :
           Call("find_best_assets", <<A, p>>, find_best_assets(A, p))
    \/ cmd = NoCmd /\ \E A \in AssetLists, p \in Platforms :
           Call("find_best_asset", <<A, p>>, find_best_asset(A, p))
    \/ cmd = NoCmd /\ \E sha \in Shas,
          A \in {r.assets : r \in Releases} \cup
                {<<Asset("t.tgz"), Asset("T.TGZ.SHA256")>>},
          fetched \in ChecksumTexts \cup
                {[ok |-> TRUE, text |-> ""],
                 [ok |-> TRUE, text |-> "# sums\nt.tgz:" \o Sha2 \o "\n"],
                 [ok |-> TRUE, text |-> Sha1 \o "\n" \o Sha2 \o "\tT.tgz"]} :
           \E target \in Range(A) :
               Call("verify_checksum", <<sha, A, target, fetched>>,
                    verify_checksum(sha, A, target, fetched))
    \/ cmd = NoCmd /\ \E spec \in {"o/a", "github.com/o/a", "https://github.com/o/a",
                     "https://github.com/o/a.git", "github.com/o/a/",
                     "https://github.com/o/a.git/", "http://github.com/o/a",
                     "https://gitlab.com/o/a", "gitlab.com/o/a.git",
                     "not a spec", "o", "", "https://github.com/o",
                     "https://github.com/o/a/releases", "o/a.git",
                     "o/", "/a", "/", "github.com//a", "github.com/o/"} :
           Call("parse_repo_spec", <<spec>>, parse_repo_spec(spec))
    \/ cmd = NoCmd /\ \E response \in Responses :
           Call("get_releases", <<response>>, get_releases(response))
    \/ cmd = NoCmd /\ \E chosen \in SUBSET {
              Package("a", "o/a", "1", "v1", [sec |-> 1, usec |-> 0],
                      <<"a", "b">>, FALSE, "t-linux-amd64.tgz"),
              Package("b", "o/b", "1.10", "1.10", [sec |-> 2, usec |-> 1],
                      <<>>, TRUE, "(source)"),
              Package("yes", "o/yes", "true", "null", [sec |-> 1, usec |-> 1],
                      <<"1", "~">>, FALSE, "")},
          dropped \in SUBSET {"binaries", "pinned", "asset"} :
           \* Manifest.save, yaml.dump, an edit that removes the dropped
           \* keys, yaml.safe_load, Manifest._load.  yaml.dump writes a str
           \* plain only when the plain text would be read back as a str,
           \* and single-quoted otherwise; safe_load gives a quoted scalar
           \* as str and a plain one as the YAML 1.1 resolver types it.
           LET packages == [n \in {q.name : q \in chosen} |->
                               CHOOSE q \in chosen : q.name = n]
               IsNumber(t) ==
                   /\ t # ""
                   /\ \A i \in 1..Len(t) : Contains("0123456789.", Char(t, i))
                   /\ Cardinality({i \in 1..Len(t) : Char(t, i) = "."}) <= 1
                   /\ Char(t, 1) # "."
               Resolve(t) ==
                   IF t \in {"", "~", "null", "Null", "NULL"} THEN "null"
                   ELSE IF t \in {"yes", "Yes", "YES", "no", "No", "NO",
                                  "true", "True", "TRUE", "false", "False",
                                  "FALSE", "on", "On", "ON", "off", "Off",
                                  "OFF"} THEN "bool"
                   ELSE IF IsNumber(t)
                   THEN IF Contains(t, ".") THEN "float" ELSE "int"
                   ELSE IF Len(t) >= 2 /\ Char(t, 1) = "T"
                           /\ IsNumber(Drop(t, 1)) THEN "timestamp"
                   ELSE "str"
               NeedsQuotes(t) ==
                   \/ Resolve(t) # "str"
                   \/ Contains("*&!|>%@`#'-?:,[]{}", Char(t, 1))
                   \/ Contains(t, ": ") \/ Contains(t, " #")
               DumpBool(v) ==
                   [style |-> "", text |-> IF v THEN "true" ELSE "false"]
               Dump(v) ==
                   [style |-> IF NeedsQuotes(v) THEN "'" ELSE "", text |-> v]
               Load(x) ==
                   IF x.style # "" \/ Resolve(x.text) = "str" THEN x.text
                   ELSE IF Resolve(x.text) = "bool"
                   THEN Lower(x.text) \in {"yes", "true", "on"}
                   ELSE [resolved |-> Resolve(x.text), text |-> x.text]
               saved  == ManifestSave(packages)
               dumped == [n \in DOMAIN saved.packages |->
                            [k \in (DOMAIN saved.packages[n]) \ dropped |->
                                IF k = "binaries"
                                THEN [i \in DOMAIN saved.packages[n][k] |->
                                         Dump(saved.packages[n][k][i])]
                                ELSE IF k = "pinned"
                                THEN DumpBool(saved.packages[n][k])
                                ELSE Dump(saved.packages[n][k])]]
               loaded == [exists |-> TRUE,
                          version |-> saved.version,
                          packages |->
                              [n \in DOMAIN dumped |->
                                  [k \in DOMAIN dumped[n] |->
                                      IF k = "binaries"
                                      THEN [i \in DOMAIN dumped[n][k] |->
                                               Load(dumped[n][k][i])]
                                      ELSE Load(dumped[n][k])]]]
           IN  Call("Manifest", <<packages, dropped, dumped>>,
                    ManifestLoad(loaded, Now))
    \/ cmd = NoCmd /\ \E files \in {F \in SUBSET {File(<<"pkg", "x", "y", "tool.sh">>, "#!", TRUE),
                                     File(<<"pkg", "x", "y", "z", "tool">>, "#!", TRUE),
                                     File(<<"pkg", "x", "y", "other">>, "#!", FALSE),
                                     File(<<"pkg", "run">>, "#!", TRUE),
                                     File(<<"pkg", "bin", "tool">>, "#!", TRUE)} :
                         F # {} /\ Cardinality(F) <= MaxFiles},
          repo \in {"tool", "none"} :
           \E tree \in {t \in [1..Cardinality(files) -> files] :
                            Range(t) = files} :
               Call("install_from_source",
                    <<find_scripts(tree, StagingRoot, repo), repo>>,
                    SourceInstallList(find_scripts(tree, StagingRoot, repo),
                                      repo))
    \/ cmd = NoCmd /\ \E files \in SUBSET {File(<<"pkg", "tool">>, "#!", TRUE),
                             File(<<"pkg", "a", "tool-helper">>, "#!", FALSE),
                             File(<<"pkg", "b", "c", "d", "Tool.sh">>, "#!", TRUE),
                             File(<<"pkg", "tests", "tool">>, "#!", TRUE),
                             File(<<"pkg", "build">>, "#!", TRUE),
                             File(<<"pkg", "tool.md">>, "#!", FALSE),
                             File(<<"pkg", "a", "tool">>, "ELF", TRUE)},
          directory \in {StagingRoot, <<"/", "home", "Build", "hobbes_x">>},
          repo_name \in {"tool", "build", ""} :
           /\ Cardinality(files) <= MaxFiles
           /\ \E tree \in [1..Cardinality(files) -> files] :
                  /\ Range(tree) = files
                  /\ Call("find_scripts", <<tree, directory, repo_name>>,
                          find_scripts(tree, directory, repo_name))
    \/ cmd = NoCmd /\ \E lines \in UNION {[1..n ->
                 {[form |-> "sum", hash |-> Sha1, sep |-> " *", filename |-> "t.tgz"],
                  [form |-> "sum", sep |-> "  ", filename |-> "T.TGZ",
                   hash |-> "ABCDEFABCDEFABCDEFABCDEFABCDEFABCDEFABCDEFABCDEFABCDEFABCDEFABCD"],
                  [form |-> "sum", hash |-> Sha1, sep |-> "\t", filename |-> "other.zip"],
                  [form |-> "colon", hash |-> Sha2, sep |-> ": ", filename |-> "t.tgz"],
                  [form |-> "colon", hash |-> Sha1, sep |-> ":", filename |-> "T.tgz"],
                  [form |-> "text", hash |-> "", sep |-> "# sums", filename |-> ""],
                  [form |-> "text", hash |-> "", sep |-> "", filename |-> ""]}] :
                              n \in 0..MaxLines},
          eol \in {"\n", "\r\n"},
          target \in {"t.tgz", "T.TGZ", "none.bin"} :
           LET Line(l) == IF l.form = "sum" THEN l.hash \o l.sep \o l.filename
                          ELSE l.filename \o l.sep \o l.hash
               content == IF Len(lines) = 0 THEN ""
                          ELSE IF Len(lines) = 1 THEN Line(lines[1]) \o eol
                          ELSE IF Len(lines) = 2
                          THEN Line(lines[1]) \o eol \o Line(lines[2]) \o eol
                          ELSE Line(lines[1]) \o eol \o Line(lines[2]) \o eol
                               \o Line(lines[3])
           IN  Call("parse_checksum_file", <<content, target, lines>>,
                    parse_checksum_file(content, target))
    \/ cmd = NoCmd /\ \E names \in UNION {[1..n -> {"t.tgz", "SHA256SUMS", "checksums.txt",
                                      "T.TGZ.SHA256", "u.zip.sha256sum",
                                      "CheckSums", "notes.md"}] :
                              n \in 0..MaxAssets},
          target \in {"t.tgz", "T.TGZ", "u.zip"} :
           LET assets == [i \in DOMAIN names |-> Asset(names[i])]
           IN  Call("find_checksum_asset", <<assets, Asset(target)>>,
                    find_checksum_asset(assets, Asset(target)))
    \/ cmd = NoCmd /\ \E archive_name \in {"t.tar.gz", "T.TGZ", "t.tar.xz", "t.tar", "t.zip",
                             "t.gz", "...gz", "t", ".."},
          names \in UNION {[1..n -> {<<"pkg", "b">>, <<"..", "..", "evil">>,
                                      <<"/", "etc", "evil">>,
                                      <<"pkg", "..", "..", "evil">>,
                                      <<"a", "..", "b">>, <<".">>}] :
                              n \in 0..MaxMembers} :
           LET blob == [decodes |-> "ok", magic |-> "ELF",
                        tree |-> [i \in DOMAIN names |->
                                     File(names[i], "ELF", FALSE)]]
           IN  Call("extract_archive", <<archive_name, blob>>,
                    ExtractOutcome(archive_name, blob))
    \/ cmd = NoCmd /\ \E method \in {"get_latest_release", "get_release_by_tag",
                       "search_repos"},
          response \in {r \in Responses : r.answered => Len(r.json) = 1} :
           \E listing \in {r \in Responses :
                              method = "get_latest_release" \/ r = response} :
               Call(method, <<response, listing>>,
                    GitHubClient(method, response, listing))
    \/ cmd = NoCmd /\ \E target \in {"t.tgz", "T.tgz"}, sha \in Shas :
           \* verify_checksum on a release of which every checksum asset has
           \* a text of its own: texts[n] is what download_text returns for
           \* the download_url of the asset named n.  The files that name
           \* the target agree on its hash.
           LET texts ==
                   (target \o ".sha256" :> [ok |-> TRUE,
                        text |-> Sha1 \o "  " \o target \o "\n"]) @@
                   (target \o ".sha256sum" :> [ok |-> TRUE,
                        text |-> Sha1 \o " *" \o target \o "\n"]) @@
                   ("other.zip.sha256" :> [ok |-> TRUE,
                        text |-> Sha2 \o "  other.zip\n"]) @@
                   ("SHA256SUMS" :> [ok |-> TRUE,
                        text |-> Sha2 \o "  other.zip\n" \o
                                 Sha1 \o "  " \o target \o "\n"]) @@
                   (target :> NoText) @@ ("other.zip" :> NoText)
           IN  \E names \in UNION {[1..n -> DOMAIN texts] : n \in 1..MaxAssets} :
                   LET assets == [i \in DOMAIN names |-> Asset(names[i])]
                       found  == find_checksum_asset(assets, Asset(target))
                       fetched == IF found = NoAsset THEN NoText
                                  ELSE texts[found.name]
                   IN  /\ target \in Range(names)
                       /\ Call("verify_release",
                               <<sha, assets, Asset(target), texts>>,
                               verify_checksum(sha, assets, Asset(target),
                                               fetched))

\* the calls touch no file: they start where no file exists
InitCalls == Init /\ manifestFile = NoFile

SpecCalls == InitCalls /\ [][NextCalls]_vars

\* ------------------------------------------------------------------------
\* Properties of the commands (Spec)
\* ------------------------------------------------------------------------
\* C1: while an install has not ended with "installed" the manifest file is
\* what it was before the command, whatever stage it failed at; a run that
\* did end with "installed" recorded binaries that are all in the bin
\* directory, so the file is written only after they were installed
InstallWritesManifestLast ==
    cmd.kind = "install" =>
        /\ result.outcome # "installed" => manifestFile = hist.pre.file
        /\ result.outcome = "installed" =>
              /\ loc.binaries # <<>>
              /\ \A b \in Range(loc.binaries) : b \in DOMAIN binDir
              /\ Entry(manifestFile, loc.repo).binaries = loc.binaries

\* an install that found no executable in what it extracted, with a package
\* already recorded in the manifest
InstallFailedLate ==
    /\ pc = "done" /\ cmd.kind = "install"
    /\ result.outcome = "no_binaries"
    /\ hist.downloaded /\ hist.verified /\ hist.extracted
    /\ hist.pre.file.exists
    /\ "b" \in DOMAIN hist.pre.file.packages

\* C2: when verify_checksum reported a mismatch, in install and in update,
\* the archive is gone from the cache, nothing was extracted from it, and the
\* bin directory holds the files it held before the command
ChecksumMismatchDiscards ==
    (pc = "done" /\ result.outcome = "checksum_mismatch") =>
        /\ loc.archive_path \notin cacheDir
        /\ ~hist.extracted /\ hist.created = {}
        /\ ~hist.removed /\ ~hist.copied
        /\ binDir = hist.pre.bin

\* an update whose download did not match, the old binaries in place
UpdateMismatched ==
    /\ pc = "done" /\ cmd.kind = "update"
    /\ result.outcome = "checksum_mismatch"
    /\ hist.downloaded
    /\ \A b \in Range(loc.package.binaries) : b \in DOMAIN binDir

\* C3: when a command has ended, no staging directory that extract_archive
\* created during it exists any more
StagingRemoved ==
    pc = "done" => hist.created \cap DOMAIN staging = {}

\* C4: in an update the old binaries are removed only after the download and
\* the verification succeeded, and no new binary is copied before; as long
\* as they were not removed (the lookup, the matching, the download or the
\* checksum failed) the bin directory is what it was
UpdateRemovesAfterVerify ==
    cmd.kind = "update" =>
        /\ hist.removed => hist.downloaded /\ hist.verified
        /\ hist.copied => hist.removed
        /\ ~hist.removed => binDir = hist.pre.bin

\* the old binaries were there and have just been removed, nothing copied yet
OldBinariesJustRemoved ==
    /\ pc = "u_extract"
    /\ loc.package.binaries # <<>>
    /\ \A b \in Range(loc.package.binaries) :
          b \in DOMAIN hist.pre.bin /\ b \notin DOMAIN binDir

\* C5: while an update has not ended with "updated", the manifest entry of
\* its package and the entry of every other package are the entries of
\* before the command
UpdateFailureKeepsEntries ==
    (cmd.kind = "update" /\ result.outcome # "updated") =>
        \A n \in Names : Entry(manifestFile, n) = Entry(hist.pre.file, n)

\* an update that found no executable after it removed the old binaries,
\* with another package in the manifest
UpdateFailedLate ==
    /\ pc = "done" /\ cmd.kind = "update"
    /\ result.outcome = "no_binaries"
    /\ hist.removed
    /\ DOMAIN manifestFile.packages = Names

\* C7: a successful update leaves an entry with the version and the tag of
\* the release the lookup returned, the names install_binaries returned, the
\* name of the chosen asset and a later timestamp; name, repo and pinned are
\* those of before, and every other entry is the entry of before
UpdateReplacesEntry ==
    (pc = "done" /\ cmd.kind = "update" /\ result.outcome = "updated") =>
        LET old == ManifestLoad(hist.pre.file, Now)[cmd.name]
            new == ManifestLoad(manifestFile, Now)[cmd.name]
        IN  /\ new.version = ReleaseVersion(loc.release.tag_name)
            /\ new.tag = loc.release.tag_name
            /\ new.binaries = loc.binaries
            /\ \A b \in Range(new.binaries) : b \in DOMAIN binDir
            /\ new.asset = loc.asset.name
            /\ \/ new.installed_at.sec > old.installed_at.sec
               \/ /\ new.installed_at.sec = old.installed_at.sec
                  /\ new.installed_at.usec > old.installed_at.usec
            /\ new.name = old.name
            /\ new.repo = old.repo
            /\ new.pinned = old.pinned
            /\ mem[Main].packages[cmd.name] = new
            /\ \A n \in Names \ {cmd.name} :
                  Entry(manifestFile, n) = Entry(hist.pre.file, n)

\* a forced update of a pinned package to another version, with another
\* package in the manifest
PinnedPackageUpdated ==
    /\ pc = "done" /\ cmd.kind = "update" /\ result.outcome = "updated"
    /\ loc.package.pinned
    /\ loc.package.version # ReleaseVersion(loc.release.tag_name)
    /\ loc.package.binaries # loc.binaries
    /\ DOMAIN manifestFile.packages = Names

\* C8: after the uninstall of an installed package none of its recorded
\* binaries is in the bin directory, has() is false on the object and on the
\* file, every other entry is the entry of before, and uninstall_binaries
\* applied once more changes nothing
UninstallRemoves ==
    (pc = "done" /\ cmd.kind = "uninstall" /\ result.outcome = "uninstalled") =>
        /\ cmd.name \in DOMAIN hist.pre.file.packages
        /\ loc.package = ManifestLoad(hist.pre.file, Now)[cmd.name]
        /\ \A b \in Range(loc.package.binaries) : b \notin DOMAIN binDir
        /\ binDir = uninstall_binaries(hist.pre.bin, loc.package.binaries)
        /\ uninstall_binaries(binDir, loc.package.binaries) = binDir
        /\ \A n \in (DOMAIN hist.pre.bin) \ Range(loc.package.binaries) :
              n \in DOMAIN binDir
        /\ ~ManifestHas(mem[Main].packages, cmd.name)
        /\ ~ManifestHas(ManifestLoad(manifestFile, Now), cmd.name)
        /\ \A n \in Names \ {cmd.name} :
              Entry(manifestFile, n) = Entry(hist.pre.file, n)

\* an uninstall of a package of which one binary was there and another was
\* not, with another package in the manifest
UninstalledHalfPresent ==
    /\ pc = "done" /\ cmd.kind = "uninstall"
    /\ result.outcome = "uninstalled"
    /\ \E b \in Range(loc.package.binaries) : b \in DOMAIN hist.pre.bin
    /\ \E b \in Range(loc.package.binaries) : b \notin DOMAIN hist.pre.bin
    /\ DOMAIN manifestFile.packages # {}

\* C6 as stated: after an update that failed after the removal the entry is
\* the old one; a later update without --force that gets the same release
\* tries the download again; a run that ends with "updated" or "installed"
\* leaves every recorded binary in the bin directory
FailedUpdateRetriedAlways ==
    /\ (pc = "done" /\ cmd.kind = "update" /\ hist.removed
            /\ result.outcome # "updated")
          => Entry(manifestFile, cmd.name) = Entry(hist.pre.file, cmd.name)
    /\ (pc = "done" /\ cmd.kind = "update" /\ ~cmd.force
            /\ hist.pre.broken.name = cmd.name
            /\ loc.release.tag_name = hist.pre.broken.tag)
          => hist.downloaded \/ result.outcome \in {"download_error", "crash"}
    /\ (pc = "done" /\ result.outcome \in {"updated", "installed"}
            /\ hist.pre.broken.name # "")
          => \A b \in Range(Entry(manifestFile, hist.pre.broken.name).binaries) :
                 b \in DOMAIN binDir

\* C6: the same, for a failed update that ran without --force
FailedUpdateRetried ==
    /\ (pc = "done" /\ cmd.kind = "update" /\ hist.removed
            /\ result.outcome # "updated")
          => Entry(manifestFile, cmd.name) = Entry(hist.pre.file, cmd.name)
    /\ (pc = "done" /\ cmd.kind = "update" /\ ~cmd.force
            /\ hist.pre.broken.name = cmd.name
            /\ ~hist.pre.broken.forced
            /\ loc.release.tag_name = hist.pre.broken.tag)
          => hist.downloaded \/ result.outcome \in {"download_error", "crash"}
    /\ (pc = "done" /\ result.outcome \in {"updated", "installed"}
            /\ hist.pre.broken.name # "")
          => \A b \in Range(Entry(manifestFile, hist.pre.broken.name).binaries) :
                 b \in DOMAIN binDir

\* an update without --force failed after the removal, and the next update
\* without --force got the same release and succeeded
RetrySucceeded ==
    /\ pc = "done" /\ cmd.kind = "update" /\ ~cmd.force
    /\ result.outcome = "updated"
    /\ hist.pre.broken.name = cmd.name
    /\ ~hist.pre.broken.forced
    /\ loc.release.tag_name = hist.pre.broken.tag
    /\ \E b \in Range(loc.package.binaries) : b \notin DOMAIN hist.pre.bin

\* C14 as stated: in a run of install or update that matches by platform
\* and finds more than one best asset, an asset is selected for the download
\* only by an answer within 1..N to "Select asset number", it is the asset at
\* that index, and it is the one the manifest records
TieIsAsked ==
    LET best == BestAssets[loc.release]
    IN  (/\ cmd.kind \in {"install", "update"}
         /\ ~cmd.source /\ cmd.asset_pattern = ""
         /\ loc.asset # NoAsset
         /\ Len(best) > 1)
          => /\ loc.choice \in 1..Len(best)
             /\ loc.asset = best[loc.choice]
             /\ result.outcome \in {"installed", "updated"}
                   => Entry(manifestFile, "a").asset = best[loc.choice].name

\* C16 as stated: a run of install or update whose download failed, by a
\* status other than 200 or by a transport error, reports the failure and
\* returns: it does not end with an exception that nothing handles
DownloadFailureReported ==
    (pc = "done" /\ hist.answer \notin {"none", "ok"})
        => result.outcome = "download_error"

\* C17 as stated: when a run of install or update has ended, the file it
\* wrote in the cache directory is not there
CacheFileRemoved ==
    pc = "done" => hist.wrote \cap cacheDir = {}

\* ------------------------------------------------------------------------
\* Properties of the Manifest object (SpecManifest, SpecConc)
\* ------------------------------------------------------------------------
\* C9: after add, remove, pin or unpin returned, loading the file gives the
\* mapping the object holds
SavedAfterEveryCall ==
    lastCall.op \in {"add", "remove", "pin", "unpin"} =>
        ManifestLoad(manifestFile, Now) = mem[lastCall.proc].packages

\* unpin returned True on an object that holds two packages
UnpinnedOneOfTwo ==
    /\ lastCall.op = "unpin" /\ lastCall.ret
    /\ DOMAIN mem[lastCall.proc].packages = Names

\* C10: when a mutating call of an invocation returned, the file is the
\* document of its own mapping, and of every entry another invocation wrote
\* since it loaded nothing is in the file; the call returned normally
LaterSaveWins ==
    (lastCall.op \in {"add", "remove", "pin", "unpin"} /\ lastCall.ret) =>
        /\ manifestFile = ManifestSave(mem[lastCall.proc].packages)
        /\ \A n \in DOMAIN missed[lastCall.proc] :
              Entry(manifestFile, n) # missed[lastCall.proc][n]

\* both invocations loaded, the other one added a package, and the add of
\* this one left the file without it
AddLostTheOtherAdd ==
    /\ \A p \in Procs : mem[p].loaded
    /\ lastCall.op = "add"
    /\ \E n \in DOMAIN missed[lastCall.proc] :
          /\ missed[lastCall.proc][n] # AbsentEntry
          /\ Entry(manifestFile, n) = AbsentEntry

\* ------------------------------------------------------------------------
\* Properties of the functions called on their own (SpecCalls)
\* ------------------------------------------------------------------------
\* C11: find_best_assets(A, P) is the list of the assets of A that match and
\* whose score is the largest score of a matching asset, in their order in
\* A; it is empty exactly when no asset matches; find_best_asset is its first
\* element, or None when it is empty
BestAssetsAreTheTopMatches ==
    cmd.kind \in {"find_best_assets", "find_best_asset"} =>
        LET A == cmd.args[1]
            P == cmd.args[2]
            matches(a) == score_asset(a, P) # NoMatch
            isTop(a) == /\ matches(a)
                        /\ \A j \in DOMAIN A :
                               matches(A[j]) =>
                                   score_asset(A[j], P) <= score_asset(a, P)
            tops == SelectSeq(A, isTop)
        IN  /\ (tops = <<>>) <=> (\A i \in DOMAIN A : ~matches(A[i]))
            /\ cmd.kind = "find_best_assets" => result = tops
            /\ cmd.kind = "find_best_asset" =>
                   result = IF tops = <<>> THEN NoAsset ELSE tops[1]

\* find_best_assets returned two of three assets that all match
TwoOfThreeTied ==
    /\ cmd.kind = "find_best_assets"
    /\ Len(cmd.args[1]) = 3 /\ Len(result) = 2
    /\ \A i \in 1..3 : score_asset(cmd.args[1][i], cmd.args[2]) # NoMatch

\* C12: for a name without a non-binary suffix, score_asset is "no match"
\* when the lowercased name holds no pattern of the OS and none of
\* universal, any, all; else 100 for the OS (10 for the surrogate), plus 50
\* for the architecture, plus 25 for both, plus the archive bonus; an OS or
\* an architecture outside the tables never matches
ScoreIsTheSumOfItsParts ==
    cmd.kind = "score_asset" =>
        LET name == Lower(cmd.args[1].name)
            P    == cmd.args[2]
            has(words) == \E w \in words : Contains(name, w)
            osWords ==
                CASE P.os = "darwin" -> {"darwin", "macos", "mac", "osx", "apple"}
                  [] P.os = "linux" -> {"linux"}
                  [] P.os = "windows" -> {"windows", "win", "win64", "win32"}
                  [] OTHER -> {}
            archWords ==
                CASE P.arch = "amd64" -> {"amd64", "x86_64", "x64", "64bit"}
                  [] P.arch = "arm64" -> {"arm64", "aarch64"}
                  [] P.arch = "386" -> {"386", "i386", "i686", "x86", "32bit"}
                  [] OTHER -> {}
            bonus == IF EndsWith(name, ".tar.gz") \/ EndsWith(name, ".tgz")
                     THEN 10
                     ELSE IF EndsWith(name, ".zip") THEN 8
                     ELSE IF EndsWith(name, ".tar.xz") THEN 6 ELSE 0
            nonBinary == \E suf \in {".txt", ".md", ".sha256", ".sig", ".asc",
                                      ".sbom"} : EndsWith(name, suf)
        IN  ~nonBinary =>
              /\ (~has(osWords) /\ ~has({"universal", "any", "all"}))
                    => result = NoMatch
              /\ (has(osWords) \/ has({"universal", "any", "all"}))
                    => result = (IF has(osWords) THEN 100 ELSE 10)
                                + (IF has(archWords) THEN 50 ELSE 0)
                                + (IF has(osWords) /\ has(archWords) THEN 25 ELSE 0)
                                + bonus
              /\ P.os = "freebsd" => result < 100
              /\ P.arch = "riscv64" => result \in {NoMatch} \cup
                        {base + b : base \in {10, 100}, b \in {0, 6, 8, 10}}

\* score_asset gave a .zip the full score of its OS and architecture
ZipScoredInFull ==
    /\ cmd.kind = "score_asset"
    /\ result = 100 + 50 + 25 + 8

\* C13: score_asset is "no match" for every name whose lowercased form ends
\* in a non-binary suffix, whatever else the name holds, and no such asset is
\* in the result of find_best_assets
NonBinarySuffixNeverMatches ==
    LET nonBinary(name) ==
            \E suf \in {".txt", ".md", ".sha256", ".sig", ".asc", ".sbom"} :
                EndsWith(Lower(name), suf)
    IN  /\ (cmd.kind = "score_asset" /\ nonBinary(cmd.args[1].name))
              => result = NoMatch
        /\ cmd.kind = "find_best_assets"
              => \A i \in DOMAIN result : ~nonBinary(result[i].name)

\* score_asset refused a checksum file that names the OS and the
\* architecture of the platform
ChecksumFileRefused ==
    /\ cmd.kind = "score_asset"
    /\ cmd.args = <<Asset("t-linux-amd64.tar.gz.sha256"), Host>>
    /\ result = NoMatch

\* C15: verify_checksum raises the mismatch exactly when some asset of the
\* list bears a checksum name, its text was fetched, the text gives a hash
\* for the target's file name, and that hash is not the digest of the file;
\* in every other case it returns True
MismatchRaisedExactly ==
    cmd.kind = "verify_checksum" =>
        LET actual  == cmd.args[1]
            assets  == cmd.args[2]
            target  == cmd.args[3]
            fetched == cmd.args[4]
            located == \E i \in DOMAIN assets :
                          \E pat \in {"sha256sums", "sha256", "checksums",
                                      "checksums.txt",
                                      target.name \o ".sha256",
                                      target.name \o ".sha256sum"} :
                              Contains(Lower(assets[i].name), pat)
            parsed  == parse_checksum_file(fetched.text, target.name)
        IN  result = ~(/\ located
                       /\ fetched.ok
                       /\ parsed # ""
                       /\ parsed # actual)

\* verify_checksum raised on a file of the form "name:hash", and the same
\* call with the digest the file gives would have returned True
MismatchOnColonLine ==
    /\ cmd.kind = "verify_checksum"
    /\ result = FALSE
    /\ cmd.args[3].name = "t.tgz"
    /\ Contains(cmd.args[4].text, ":")
    /\ parse_checksum_file(cmd.args[4].text, "t.tgz") = Sha2
    /\ verify_checksum(Sha2, cmd.args[2], cmd.args[3], cmd.args[4])

\* C18 as stated: a method of GitHubClient that does not return raises
\* GitHubError and no other exception; status 403 raises it as "rate limit"
\* and status 404, except in get_latest_release which then falls back to
\* the list, as "not found"
ClientErrorsTyped ==
    cmd.kind \in {"get_releases", "get_latest_release", "get_release_by_tag",
                  "search_repos"} =>
        LET response == cmd.args[1]
        IN  /\ result.raised \in {"", "GitHubError"}
            /\ (response.answered /\ response.status = 403)
                  => result.message = "rate limit"
            /\ (response.answered /\ response.status = 404
                    /\ cmd.kind # "get_latest_release")
                  => result.message = "not found"

\* C19: get_latest_release returns the release of the answer when the
\* status is 200; on 404 with a list it returns the first entry of the list
\* that is neither draft nor prerelease, else the first that is no draft,
\* and raises GitHubError "no releases" when the list has none
LatestFallsBack ==
    (cmd.kind = "get_latest_release" /\ cmd.args[1].answered) =>
        LET response == cmd.args[1]
            listing  == cmd.args[2]
            flag(d, key) == key \in DOMAIN d /\ d[key]
            kept   == SelectSeq(listing.json, LAMBDA d : ~flag(d, "draft"))
            stable == SelectSeq(kept, LAMBDA d : ~flag(d, "prerelease"))
            Returns(d) == /\ result.raised = ""
                          /\ result.value.tag_name = d.tag_name
                          /\ result.value.prerelease = flag(d, "prerelease")
        IN  /\ response.status = 200 => Returns(response.json[1])
            /\ (response.status = 404 /\ listing.answered
                    /\ listing.status = 200)
                  => IF stable # <<>> THEN Returns(stable[1])
                     ELSE IF kept # <<>> THEN Returns(kept[1])
                     ELSE /\ result.raised = "GitHubError"
                          /\ result.message = "no releases"

\* get_latest_release passed over a draft and returned the prerelease
\* behind it, the only other entry of the list
LatestIsThePrerelease ==
    /\ cmd.kind = "get_latest_release"
    /\ cmd.args[1].answered /\ cmd.args[1].status = 404
    /\ cmd.args[2].answered /\ cmd.args[2].status = 200
    /\ Len(cmd.args[2].json) = 2
    /\ cmd.args[2].json[1].tag_name = "v3"
    /\ result.raised = "" /\ result.value.tag_name = "v2"

ExtractionStaysInStaging ==
    cmd.kind = "extract_archive" =>
        LET Ups(p, k)   == Cardinality({i \in 1..k : p[i] = ".."})
            Downs(p, k) == Cardinality({i \in 1..k :
                                           p[i] \notin {"..", ".", "", "/"}})
            Under(p) == /\ "/" \notin Range(p)
                        /\ \A k \in 1..Len(p) : Ups(p, k) <= Downs(p, k)
                        /\ Ups(p, Len(p)) < Downs(p, Len(p))
        IN  /\ \A f \in Range(result.tree) : Under(f.parts)
            /\ result.result \in {"ok", "error"}
            /\ result.result = "ok" /\ Decoder(cmd.args[1]) \notin {"gz", "raw"}
                   => Len(result.tree) = Len(cmd.args[2].tree)

ZipEntryRewritten ==
    /\ cmd.kind = "extract_archive"
    /\ cmd.args[1] = "t.zip"
    /\ cmd.args[2].tree = <<File(<<"..", "..", "evil">>, "ELF", FALSE),
                            File(<<"/", "etc", "evil">>, "ELF", FALSE)>>
    /\ result = [result |-> "ok",
                 tree |-> <<File(<<"evil">>, "ELF", FALSE),
                            File(<<"etc", "evil">>, "ELF", FALSE)>>]

\* C22: a successful install from a binary asset leaves a manifest entry
\* under the repository's short name with repo = "owner/repo", tag = the tag
\* of the release, version = the tag without a leading "v", asset = the name
\* of the selected asset, pinned = false and binaries = the basenames of all
\* executables found in what was extracted; every listed binary is in the
\* bin directory with the execute bits of owner, group and other.
BinaryInstallRecorded ==
    cmd.kind = "install" /\ loc.asset # NoAsset =>
        /\ pc = "b_record" =>
              loc.binaries = [i \in DOMAIN find_executables(staging[loc.temp_dir])
                                |-> PathName(find_executables(
                                                 staging[loc.temp_dir])[i])]
        /\ result.outcome = "installed" =>
              LET e == Entry(manifestFile, loc.repo)
              IN  /\ cmd.spec \in {e.repo, "https://github.com/" \o e.repo \o ".git"}
                  /\ Split(e.repo, "/") = <<loc.owner, loc.repo>>
                  /\ loc.release \in Releases
                  /\ e.tag = loc.release.tag_name
                  /\ IF StartsWith(e.tag, "v") THEN "v" \o e.version = e.tag
                     ELSE e.version = e.tag
                  /\ loc.asset \in Range(loc.release.assets)
                  /\ e.asset = loc.asset.name
                  /\ e.pinned = FALSE
                  /\ e.binaries = loc.binaries
                  /\ e.binaries # <<>>
                  /\ \A b \in Range(e.binaries) :
                         /\ b \in DOMAIN binDir
                         /\ {"S_IXUSR", "S_IXGRP", "S_IXOTH"} \subseteq binDir[b]

BinaryInstalledTwo ==
    /\ pc = "done" /\ result.outcome = "installed"
    /\ cmd = InstallCmd("o/a", FALSE, FALSE, "", "", FALSE)
    /\ loc.asset = Asset("t-linux-amd64.tgz")
    /\ Entry(manifestFile, "a").binaries = <<"b", "a">>
    /\ Entry(manifestFile, "a").version = "1"
    /\ binDir["b"] = {"S_IXUSR", "S_IXGRP", "S_IXOTH"}

\* C23: find_checksum_asset returns the first asset, in the order of the
\* release, whose lowercased name contains one of sha256sums, sha256,
\* checksums, checksums.txt, <target name>.sha256, <target name>.sha256sum,
\* and None when no asset's name contains any of them.
ChecksumAssetIsFirstMatch ==
    cmd.kind = "find_checksum_asset" =>
        LET assets == cmd.args[1]
            target == cmd.args[2]
            Matches(a) ==
                \E p \in {"sha256sums", "sha256", "checksums", "checksums.txt",
                          target.name \o ".sha256",
                          target.name \o ".sha256sum"} :
                    Contains(Lower(a.name), p)
        IN  IF \A i \in DOMAIN assets : ~Matches(assets[i])
            THEN result = NoAsset
            ELSE \E i \in DOMAIN assets :
                     /\ result = assets[i]
                     /\ Matches(assets[i])
                     /\ \A j \in 1..(i - 1) : ~Matches(assets[j])

FirstOfTwoChecksumFiles ==
    /\ cmd.kind = "find_checksum_asset"
    /\ cmd.args[1] = <<Asset("t.tgz"), Asset("T.TGZ.SHA256"), Asset("SHA256SUMS")>>
    /\ cmd.args[2] = Asset("t.tgz")
    /\ result = Asset("T.TGZ.SHA256")

\* C24: parse_checksum_file returns the lowercased 64-digit hash of the first
\* line from the top whose file name is the target's, letter case ignored,
\* among lines "<hash> <whitespace> [*]<filename>" and "<filename>: <hash>",
\* and None when there is no such line; the letter case of the hash and of
\* the file names makes no difference to what it returns.
ChecksumLineFound ==
    cmd.kind = "parse_checksum_file" =>
        LET target == cmd.args[2]
            lines  == cmd.args[3]
            hits   == {i \in DOMAIN lines :
                          /\ lines[i].form # "text"
                          /\ Lower(lines[i].filename) = Lower(target)}
            first  == CHOOSE i \in hits : \A j \in hits : i <= j
        IN  /\ result \in {"", Sha1, Sha2}
            /\ IF hits = {} THEN result = ""
               ELSE result = Lower(lines[first].hash)
            /\ result = parse_checksum_file(Lower(cmd.args[1]), Lower(target))

UpperCaseLineFound ==
    /\ cmd.kind = "parse_checksum_file"
    /\ cmd.args[2] = "t.tgz"
    /\ Len(cmd.args[3]) = 2
    /\ cmd.args[3][1].filename = "other.zip"
    /\ cmd.args[3][2].filename = "T.TGZ"
    /\ Contains(cmd.args[1], "\r\n")
    /\ result = Sha2

\* C25: find_scripts returns the files that start with "#!" and lie in no
\* excluded directory and have no excluded extension, sorted by (stem equal
\* to the repository's name, letter case ignored, first; then depth below
\* the staging directory, ascending; then lowercased file name); so when
\* some such script's stem is the repository's name, the first element is
\* the shallowest script with that stem.
ScriptsOutsideExcludedFound ==
    cmd.kind = "find_scripts" =>
        LET tree == cmd.args[1]
            repo_name == cmd.args[3]
            Dirs(f) == {f.parts[i] : i \in 1..(Len(f.parts) - 1)}
            scripts == {f \in Range(tree) :
                           /\ f.magic = "#!"
                           /\ \A d \in Dirs(f) : Lower(d) \notin exclude_patterns
                           /\ Lower(PathSuffix(f)) \notin exclude_extensions}
            Named(f) == repo_name # ""
                        /\ Lower(PathStem(f)) = Lower(repo_name)
            Before(f, g) ==
                \/ Named(f) /\ ~Named(g)
                \/ /\ Named(f) = Named(g)
                   /\ \/ Len(f.parts) < Len(g.parts)
                      \/ /\ Len(f.parts) = Len(g.parts)
                         /\ ~StrLess(Lower(PathName(g)), Lower(PathName(f)))
        IN  /\ Range(result) = scripts
            /\ Len(result) = Cardinality(scripts)
            /\ \A i, j \in DOMAIN result : i < j => Before(result[i], result[j])
            /\ (\E f \in scripts : Named(f)) =>
                   /\ Named(result[1])
                   /\ \A f \in scripts :
                          Named(f) => Len(result[1].parts) <= Len(f.parts)

\* C26: a confirmed source install copies every ranked script that lies at
\* depth 3 or less below the staging directory; when there is none, only
\* the first ranked script whose stem is the repository's name; when there
\* is none either, only the first script of the ranking.
SourceInstallPicksByStem ==
    cmd.kind = "install_from_source" =>
        LET scripts == cmd.args[1]
            repo    == cmd.args[2]
            shallow == {i \in DOMAIN scripts : Len(scripts[i].parts) <= 3}
            named   == {i \in DOMAIN scripts :
                           Lower(PathStem(scripts[i])) = Lower(repo)}
        IN  IF shallow # {}
            THEN result = SelectSeq(scripts, LAMBDA f : Len(f.parts) <= 3)
            ELSE IF named # {}
            THEN result = <<scripts[CHOOSE i \in named :
                                       \A j \in named : i <= j]>>
            ELSE result = <<scripts[1]>>

\* C27: a manifest that is saved and loaded again gives the same mapping:
\* name, repo, version, tag, installed_at, binaries, pinned and asset of
\* every package; an entry without binaries, pinned or asset loads with an
\* empty list, false and the empty string in their place.
SavedManifestLoadsBack ==
    cmd.kind = "Manifest" =>
        LET packages == cmd.args[1]
            dropped  == cmd.args[2]
        IN  /\ DOMAIN result = DOMAIN packages
            /\ dropped = {} => result = packages
            /\ \A n \in DOMAIN packages :
                   /\ result[n].name = n
                   /\ result[n].repo = packages[n].repo
                   /\ result[n].version = packages[n].version
                   /\ result[n].tag = packages[n].tag
                   /\ result[n].installed_at = packages[n].installed_at
                   /\ result[n].binaries =
                          IF "binaries" \in dropped THEN <<>>
                          ELSE packages[n].binaries
                   /\ result[n].pinned =
                          IF "pinned" \in dropped THEN FALSE
                          ELSE packages[n].pinned
                   /\ result[n].asset =
                          IF "asset" \in dropped THEN ""
                          ELSE packages[n].asset

ThreePackagesLoadedBack ==
    /\ cmd.kind = "Manifest"
    /\ DOMAIN cmd.args[1] = {"a", "b", "yes"}
    /\ cmd.args[2] = {}
    /\ cmd.args[3]["b"].version = [style |-> "'", text |-> "1.10"]
    /\ cmd.args[3]["a"].tag = [style |-> "", text |-> "v1"]
    /\ result["b"].installed_at = [sec |-> 2, usec |-> 1]
    /\ result["yes"].binaries = <<"1", "~">>
    /\ result = cmd.args[1]

\* C28: update and upgrade-all without --force make no release lookup and no
\* download for a pinned package and leave its manifest entry as it was;
\* when every package they are about is pinned, the manifest, the bin
\* directory, the cache and the staging area are untouched.  upgrade-all
\* still hands every other package to update_package and looks up its
\* release; with --force a pinned package is looked up like any other.
PinnedIsSkipped ==
    cmd.kind \in {"update", "upgrade-all"} =>
        LET before  == ManifestLoad(hist.pre.file, Earlier)
            targets == IF cmd.kind = "update" THEN {cmd.name} \cap DOMAIN before
                       ELSE DOMAIN before
            skipped == {n \in targets : before[n].pinned /\ ~cmd.force}
        IN  /\ hist.looked \cap skipped = {}
            /\ \A n \in skipped :
                   Entry(manifestFile, n) = Entry(hist.pre.file, n)
            /\ targets = skipped =>
                   /\ ~hist.downloaded
                   /\ manifestFile = hist.pre.file
                   /\ binDir = hist.pre.bin
                   /\ cacheDir = {}
                   /\ staging = <<>>
            /\ pc = "done" /\ loc.todo = <<>> /\ result.outcome # "crash" =>
                   /\ targets \ skipped \subseteq hist.looked
                   /\ cmd.kind = "upgrade-all" =>
                          /\ Len(hist.visited) = Cardinality(targets)
                          /\ Range(hist.visited) = targets

PinnedSkippedOtherUpdated ==
    /\ cmd = NameCmd("upgrade-all", "", FALSE)
    /\ pc = "done" /\ loc.todo = <<>>
    /\ hist.visited = <<"a", "b">>
    /\ hist.looked = {"b"}
    /\ Entry(hist.pre.file, "a").pinned
    /\ Entry(manifestFile, "a") = Entry(hist.pre.file, "a")
    /\ result.outcome = "updated"
    /\ Entry(manifestFile, "b").tag = "v2"

\* C29: install without --force of a repository whose short name is a key
\* of the manifest ends with exit status 0 before any request goes out, and
\* the manifest, the bin directory and the cache are what they were.
InstalledIsNotReinstalled ==
    /\ cmd.kind = "install"
    /\ ~cmd.force
    /\ parse_repo_spec(cmd.spec).ok
    /\ hist.pre.file.exists
    /\ parse_repo_spec(cmd.spec).repo \in DOMAIN hist.pre.file.packages
    => /\ pc = "done"
       /\ result.status = 0
       /\ loc.release = NoRelease
       /\ hist.answer = "none" /\ ~hist.downloaded /\ hist.wrote = {}
       /\ manifestFile = hist.pre.file
       /\ binDir = hist.pre.bin
       /\ cacheDir = {}

SecondInstallRefused ==
    /\ cmd = InstallCmd("o/a", FALSE, FALSE, "", "", FALSE)
    /\ pc = "done"
    /\ result = [status |-> 0, outcome |-> "already_installed"]
    /\ Entry(manifestFile, "a").repo = "o/a"
    /\ clock > 0

\* C30: when the release lookup of update has answered, update without
\* --force of a package whose recorded version is the version of the latest
\* release (its tag with one leading "v" removed) downloads nothing and
\* leaves the manifest and the bin directory as they were; when the
\* versions differ, or with --force, it goes on to choose an asset.
UpToDateIsLeftAlone ==
    cmd.kind = "update" /\ loc.release # NoRelease =>
        LET recorded == Entry(hist.pre.file, cmd.name).version
            tag      == loc.release.tag_name
            latest   == IF Len(tag) > 0 /\ Char(tag, 1) = "v"
                        THEN SubSeq(tag, 2, Len(tag)) ELSE tag
        IN  IF recorded = latest /\ ~cmd.force
            THEN /\ pc = "done"
                 /\ result = [status |-> 0, outcome |-> "up_to_date"]
                 /\ ~hist.downloaded /\ hist.answer = "none"
                 /\ manifestFile = hist.pre.file
                 /\ binDir = hist.pre.bin
            ELSE /\ result.outcome # "up_to_date"
                 /\ loc.asset # NoAsset \/ result.outcome = "no_asset"

SameVersionOtherTag ==
    /\ cmd = NameCmd("update", "a", FALSE)
    /\ Entry(hist.pre.file, "a") # AbsentEntry
    /\ Entry(hist.pre.file, "a").tag = "v1"
    /\ loc.release.tag_name = "1"
    /\ result.outcome = "up_to_date"
    /\ binDir = hist.pre.bin

\* ------------------------------------------------------------------------
\* The manifest and the bin directory over sequences of commands
\* ------------------------------------------------------------------------
\* C31: after install, update, uninstall, pin and unpin commands that each
\* did what they were asked to do, every binary recorded in an entry of the
\* manifest is a file of the bin directory
RecordedBinariesExist ==
    (pc = "idle" /\ ~broken.failed) =>
        \A n \in DOMAIN ManifestLoad(manifestFile, Now) :
           \A b \in Range(ManifestLoad(manifestFile, Now)[n].binaries) :
              b \in DOMAIN binDir

\* C32: no step of an install or of an update takes a pinned entry out of
\* the manifest or clears its pinned flag
PinnedStaysPinned ==
    [][\A n \in Names :
          (/\ Entry(manifestFile, n) # AbsentEntry
           /\ Entry(manifestFile, n).pinned
           /\ cmd'.kind \in {"install", "update"})
          => /\ Entry(manifestFile', n) # AbsentEntry
             /\ Entry(manifestFile', n).pinned]_vars

\* C33: between commands every file of the bin directory is recorded as a
\* binary of some entry of the manifest
BinFilesAreRecorded ==
    pc = "idle" =>
        \A f \in DOMAIN binDir :
           \E n \in DOMAIN ManifestLoad(manifestFile, Now) :
              f \in Range(ManifestLoad(manifestFile, Now)[n].binaries)

\* C34: when the release lists a file named after the target with .sha256 or
\* .sha256sum appended, and the text of that file gives for the target a
\* hash that is not the hash of the download, verify_checksum raises the
\* mismatch, whatever else the release lists and in whatever order
OwnChecksumFileDecides ==
    cmd.kind = "verify_release" =>
        LET sha    == cmd.args[1]
            assets == cmd.args[2]
            target == cmd.args[3].name
            texts  == cmd.args[4]
        IN  (\E i \in DOMAIN assets :
                /\ assets[i].name \in {target \o ".sha256", target \o ".sha256sum"}
                /\ texts[assets[i].name].ok
                /\ parse_checksum_file(texts[assets[i].name].text, target)
                      \notin {"", sha})
            => result = FALSE

\* C35: an install or an update ends with exit status 0 exactly when the
\* package was installed or updated, was already installed or up to date,
\* was skipped as pinned, or the assets were listed; every failed stage
\* ends it with another status
ExitStatusTellsFailure ==
    (pc = "done" /\ cmd.kind \in {"install", "update"}) =>
        (result.status = 0 <=>
            result.outcome \in {"installed", "updated", "already_installed",
                                "up_to_date", "pinned", "list_assets"})

\* C36: score_asset is "no match" for a name of which a word, the name being
\* split at "-", "_" and ".", is a word of the table of another OS, while no
\* word is of the table of the OS asked for and none is universal, any or all
OtherOsWordIsNoMatch ==
    cmd.kind = "score_asset" =>
        LET RECURSIVE Words(_)
            Words(s) ==
                LET cuts == {i \in 1..Len(s) : Char(s, i) \in {"-", "_", "."}}
                    cut  == CHOOSE i \in cuts : \A j \in cuts : i <= j
                IN  IF cuts = {} THEN {s}
                    ELSE {SubSeq(s, 1, cut - 1)}
                             \cup Words(SubSeq(s, cut + 1, Len(s)))
            words   == Words(Lower(cmd.args[1].name))
            os      == cmd.args[2].os
            table(o) == Range(OS_PATTERNS(o))
        IN  (/\ \E o \in {"darwin", "linux", "windows"} \ {os} :
                    words \cap table(o) # {}
             /\ words \cap table(os) = {}
             /\ words \cap {"universal", "any", "all"} = {})
            => result = NoMatch

\* C37: whenever parse_repo_spec returns, owner and repo are not empty and
\* hold no "/"
ParsedPartsAreSegments ==
    (cmd.kind = "parse_repo_spec" /\ result.ok) =>
        /\ result.owner # "" /\ result.repo # ""
        /\ ~Contains(result.owner, "/") /\ ~Contains(result.repo, "/")

\* ------------------------------------------------------------------------
\* Properties of the Manifest object (SpecManifest), continued
\* ------------------------------------------------------------------------
\* C38: Manifest.pin(name) and Manifest.unpin(name) on a name of the mapping
\* return True and change, in the mapping and in the file, the pinned flag
\* of that entry and nothing else; on any other name they return False and
\* leave the mapping and the file as they are; an unpin right after the pin
\* of an unpinned entry gives back the mapping and the file of before
PinTouchesOnlyTheFlag ==
    [][lastCall'.op \in {"pin", "unpin"} =>
          LET p    == lastCall'.proc
              n    == lastCall'.name
              flag == (lastCall'.op = "pin")
              old  == mem[p].packages
              new  == mem'[p].packages
              back == ManifestSetPin(new, manifestFile', n, FALSE)
          IN  IF n \in DOMAIN old
              THEN /\ lastCall'.ret
                   /\ DOMAIN new = DOMAIN old
                   /\ new[n] = [old[n] EXCEPT !.pinned = flag]
                   /\ \A k \in DOMAIN old \ {n} : new[k] = old[k]
                   /\ Entry(manifestFile', n) =
                          [Entry(manifestFile, n) EXCEPT !.pinned = flag]
                   /\ \A k \in Names \ {n} :
                          Entry(manifestFile', k) = Entry(manifestFile, k)
                   /\ (flag /\ ~old[n].pinned) =>
                          /\ back.ret
                          /\ back.packages = old
                          /\ back.file = manifestFile
              ELSE /\ ~lastCall'.ret
                   /\ new = old
                   /\ manifestFile' = manifestFile]_vars

\* pin returned True for one of two unpinned packages of the object
PinnedOneOfTwo ==
    /\ lastCall.op = "pin" /\ lastCall.ret
    /\ DOMAIN mem[lastCall.proc].packages = Names
    /\ mem[lastCall.proc].packages[lastCall.name].pinned
    /\ \E k \in Names \ {lastCall.name} :
          ~mem[lastCall.proc].packages[k].pinned
    /\ Entry(manifestFile, lastCall.name).pinned

\* ------------------------------------------------------------------------
\* Properties of the commands that take a package name (SpecNames)
\* ------------------------------------------------------------------------
\* C39: uninstall, update, pin and unpin of a name that is no key of the
\* manifest end at once with exit status 1, and the manifest file, the bin
\* directory, the cache and the staging directories are what they were
MissingNameRefused ==
    [][(/\ pc = "idle"
        /\ cmd'.kind \in {"uninstall", "update", "pin", "unpin"}
        /\ cmd'.name \notin DOMAIN ManifestLoad(manifestFile, Now))
       => /\ pc' = "done"
          /\ result'.status = 1
          /\ UNCHANGED <<manifestFile, binDir, cacheDir, staging>>]_vars

\* an update of a name that is not installed was refused while another
\* package was installed and a broken download lay in the cache
MissingNameRefusedWithFiles ==
    /\ pc = "done" /\ cmd.kind = "update"
    /\ result = [status |-> 1, outcome |-> "not_installed"]
    /\ cmd.name \notin DOMAIN ManifestLoad(manifestFile, Now)
    /\ DOMAIN ManifestLoad(manifestFile, Now) # {}
    /\ DOMAIN binDir # {}
    /\ cacheDir # {}

====
